---- MODULE Spec2Model ----
(***************************************************************************)
(* Model of the GSE stock-market server: the RocksDB time-series store     *)
(* (infrastructure/rocksdb_repository.rs), the ingestion use cases         *)
(* (application/use_cases.rs) and the scraping worker                      *)
(* (application/worker.rs).                                                *)
(*                                                                         *)
(* Strings are sequences of one-character strings; the engine orders keys  *)
(* by their bytes, which is the order of Alphabet below.  An Option is a   *)
(* sequence of length 0 (None) or 1 (Some).                                *)
(***************************************************************************)
EXTENDS Integers, Sequences, FiniteSets, TLC

VARIABLES
    db,             \* the RocksDB key space: a function from keys to values
    sameAsStart,    \* whether the engine build honours prefix_same_as_start
    hist,           \* history: the payloads put under each (symbol, kind, seconds)
    clock,          \* Utc::now(), in whole seconds since the epoch
    nextTick,       \* the deadline of the worker's interval timer
    pc,             \* where the worker's task stands
    retries,        \* the local `retries` of fetch_with_retry
    config,         \* the WorkerConfig the worker was built with
    obs,            \* history: what the current scrape cycle has done so far
    cal,            \* history: the calendar reading of the clock at start
    tasks           \* the concurrent tasks of the race specification

storeVars == << db, sameAsStart, hist >>
workerVars == << clock, nextTick, pc, retries, config, obs, cal >>
vars ==
    << db, sameAsStart, hist, clock, nextTick, pc, retries, config, obs, cal,
       tasks >>

----------------------------------------------------------------------------
(* Text: bytes, decimal formatting and parsing, split(':')                 *)

\* The characters the model uses, in ASCII order (0-9 < ':' < A-Z < '_' < a-z).
Alphabet ==
    << "0", "1", "2", "3", "4", "5", "6", "7", "8", "9", ":",
       "A", "B", "C", "D", "E", "F", "I", "K", "L", "M", "O", "P", "R",
       "S", "T", "U", "V", "Y", "_",
       "a", "b", "c", "d", "e", "f", "i", "k", "l", "m", "o", "p", "r",
       "s", "t", "u", "v", "y" >>

Ord == [c \in {Alphabet[i] : i \in 1..Len(Alphabet)} |->
            CHOOSE i \in 1..Len(Alphabet) : Alphabet[i] = c]

None == << >>
Some(x) == << x >>

LowerCase ==
    << "a", "b", "c", "d", "e", "f", "i", "k", "l", "m", "o", "p", "r",
       "s", "t", "u", "v", "y" >>
UpperCase ==
    << "A", "B", "C", "D", "E", "F", "I", "K", "L", "M", "O", "P", "R",
       "S", "T", "U", "V", "Y" >>

\* str::to_uppercase: every lower-case letter becomes its capital, any other
\* character stays.
to_uppercase(s) ==
    [i \in 1..Len(s) |->
        IF \E j \in 1..Len(LowerCase) : LowerCase[j] = s[i]
        THEN UpperCase[CHOOSE j \in 1..Len(LowerCase) : LowerCase[j] = s[i]]
        ELSE s[i]]

Digits == << "0", "1", "2", "3", "4", "5", "6", "7", "8", "9" >>

IsDigit(c) == \E d \in 1..10 : Digits[d] = c

DigitValue(c) == (CHOOSE d \in 1..10 : Digits[d] = c) - 1

\* format!("{}", n) of a non-negative i64: plain decimal, no padding.
RECURSIVE ToDecimal(_)
ToDecimal(n) ==
    IF n < 10 THEN << Digits[n + 1] >>
    ELSE ToDecimal(n \div 10) \o << Digits[(n % 10) + 1] >>

\* str::parse::<i64> on text without a sign: Some(value) iff the text is a
\* non-empty run of decimal digits.
RECURSIVE DecimalValue(_)
DecimalValue(s) ==
    IF s = << >> THEN 0
    ELSE 10 * DecimalValue(SubSeq(s, 1, Len(s) - 1)) + DigitValue(s[Len(s)])

ParseI64(s) ==
    IF s # << >> /\ \A i \in 1..Len(s) : IsDigit(s[i])
    THEN Some(DecimalValue(s))
    ELSE None

\* key_str.split(':') as the sequence of its segments.
RECURSIVE Split(_)
Split(s) ==
    IF \A i \in 1..Len(s) : s[i] # ":" THEN << s >>
    ELSE LET i == CHOOSE j \in 1..Len(s) :
                      s[j] = ":" /\ \A h \in 1..(j - 1) : s[h] # ":"
         IN << SubSeq(s, 1, i - 1) >> \o Split(SubSeq(s, i + 1, Len(s)))

\* Iterator::last of the split: the text after the last ':'.
LastSegment(s) == LET parts == Split(s) IN parts[Len(parts)]

\* Iterator::nth(1) of the split: the second segment, when there is one.
NthSegment1(s) ==
    LET parts == Split(s) IN IF Len(parts) >= 2 THEN Some(parts[2]) ELSE None

StartsWith(s, p) == Len(s) >= Len(p) /\ SubSeq(s, 1, Len(p)) = p

\* Lexicographic byte order of two strings (the engine's default comparator):
\* a proper prefix comes first, else the first differing byte decides.
BytesLess(a, b) ==
    LET n == IF Len(a) < Len(b) THEN Len(a) ELSE Len(b)
    IN IF SubSeq(a, 1, n) = SubSeq(b, 1, n) THEN Len(a) < Len(b)
       ELSE LET i == CHOOSE j \in 1..n :
                         a[j] # b[j] /\ SubSeq(a, 1, j - 1) = SubSeq(b, 1, j - 1)
            IN Ord[a[i]] < Ord[b[i]]

----------------------------------------------------------------------------
(* Time: a DateTime<Utc> is seconds since the epoch plus nanoseconds       *)

\* The DateTime at a whole second.
At(secs) == [secs |-> secs, nanos |-> 0]

\* DateTime::timestamp(): the whole seconds, the sub-second part dropped.
Timestamp(dt) == dt.secs

\* DateTime::from_timestamp(secs, 0).
FromTimestamp(secs) == Some(At(secs))

\* Ord on DateTime<Utc>.
DateTimeLeq(a, b) ==
    a.secs < b.secs \/ (a.secs = b.secs /\ a.nanos <= b.nanos)

\* i64::to_be_bytes: eight bytes, most significant first.
RECURSIVE BeBytes(_, _)
BeBytes(n, width) ==
    IF width = 0 THEN << >>
    ELSE BeBytes(n \div 256, width - 1) \o << n % 256 >>

----------------------------------------------------------------------------
(* Key codec                                                               *)

StockPrefix == << "s", "t", "o", "c", "k", ":" >>
LiveInfix == << ":", "l", "i", "v", "e", ":" >>
DetailInfix == << ":", "d", "e", "t", "a", "i", "l", ":" >>
MarketSummaryPrefix ==
    << "m", "a", "r", "k", "e", "t", ":",
       "s", "u", "m", "m", "a", "r", "y", ":" >>
LastUpdatePrefix ==
    << "m", "e", "t", "a", "d", "a", "t", "a", ":",
       "l", "a", "s", "t", "_", "u", "p", "d", "a", "t", "e", "d", ":" >>

\* A live key of minute granularity.
live_data_key_by_minute(symbol, timestamp) ==
    StockPrefix \o symbol \o LiveInfix \o ToDecimal(Timestamp(timestamp) \div 60)

live_data_key(symbol, timestamp) ==
    StockPrefix \o symbol \o LiveInfix \o ToDecimal(Timestamp(timestamp))

equity_data_key(symbol, timestamp) ==
    StockPrefix \o symbol \o DetailInfix \o ToDecimal(Timestamp(timestamp))

market_summary_key(timestamp) ==
    MarketSummaryPrefix \o ToDecimal(Timestamp(timestamp))

last_update_key(symbol) == LastUpdatePrefix \o symbol

LivePrefix(symbol) == StockPrefix \o symbol \o LiveInfix
DetailPrefix(symbol) == StockPrefix \o symbol \o DetailInfix

----------------------------------------------------------------------------
(* Values: serde_json documents and raw bytes                              *)

LiveFields == {"change", "name", "price", "volume"}
EquityRequired == {"company", "name", "price"}
EquityOptional == {"capital", "dps", "eps", "shares"}
SummaryFields ==
    {"total_market_cap", "total_volume", "total_stocks",
     "top_gainers", "top_losers", "last_updated"}

\* serde_json::to_vec of a struct: the JSON object of its fields.
ToJson(x) == [json |-> x]

IsJson(v) == "json" \in DOMAIN v

\* serde_json::from_slice::<EquityLive>: every field is required, unknown
\* fields are ignored.
DecodeEquityLive(v) ==
    IF IsJson(v) /\ LiveFields \subseteq DOMAIN v.json
    THEN Some([f \in LiveFields |-> v.json[f]])
    ELSE None

\* serde_json::from_slice::<Equity>: the Option fields may be missing.
DecodeEquity(v) ==
    IF IsJson(v) /\ EquityRequired \subseteq DOMAIN v.json
    THEN Some([f \in EquityRequired \cup EquityOptional |->
                  IF f \in DOMAIN v.json THEN v.json[f] ELSE None])
    ELSE None

DecodeMarketSummary(v) ==
    IF IsJson(v) /\ SummaryFields \subseteq DOMAIN v.json
    THEN Some([f \in SummaryFields |-> v.json[f]])
    ELSE None

----------------------------------------------------------------------------
(* The ordered key-value engine                                            *)

EmptyDb == [k \in {} |-> None]

\* A put that keeps the value of a key that exists already.
PutIfAbsent(d, key, value) ==
    [k \in DOMAIN d \cup {key} |-> IF k \in DOMAIN d THEN d[k] ELSE value]

\* DB::put: insert or overwrite one key.
Put(d, key, value) ==
    [k \in DOMAIN d \cup {key} |-> IF k = key THEN value ELSE d[k]]

\* The keys of a set in the engine's iteration order: ascending byte order.
SortedKeys(S) ==
    LET rank == [k \in S |-> Cardinality({o \in S : BytesLess(o, k)})]
    IN [i \in 1..Cardinality(S) |-> CHOOSE k \in S : rank[k] = i - 1]

\* DB::prefix_iterator(prefix): seek to the first key >= prefix and iterate
\* forward in key order.  ReadOptions::prefix_same_as_start ends the scan at
\* the first key without the prefix only when the column family has a prefix
\* extractor; the repository opens the DB with none, so whether the scan is
\* bounded depends on the engine build: both outcomes are modelled.
PrefixIterator(d, prefix, bounded) ==
    LET from == {k \in DOMAIN d : ~BytesLess(k, prefix)}
        kept == IF bounded THEN {k \in from : StartsWith(k, prefix)} ELSE from
    IN SortedKeys(kept)

----------------------------------------------------------------------------
(* RocksDbStockRepository                                                  *)

Ok(d) == [ok |-> TRUE, db |-> d]
Err(d) == [ok |-> FALSE, db |-> d]

\* A first put that keeps only the newest live entry of the symbol.
put_live_entry_latest_only(d, symbol, data, timestamp) ==
    LET key == live_data_key(symbol, timestamp)
        kept == {k \in DOMAIN d : ~StartsWith(k, LivePrefix(symbol))} \cup {key}
    IN [k \in kept |-> IF k = key THEN ToJson(data) ELSE d[k]]

\* The first put of store_live_data: the quote under its live key.
put_live_entry(d, symbol, data, timestamp) ==
    Put(d, live_data_key(symbol, timestamp), ToJson(data))

\* A marker that holds timestamp_millis() instead of timestamp().
put_last_update_millis(d, symbol, timestamp) ==
    Put(d, last_update_key(symbol),
        [raw |-> BeBytes(Timestamp(timestamp) * 1000, 8)])

\* The second put of store_live_data: the last-updated marker of the symbol.
put_last_update(d, symbol, timestamp) ==
    Put(d, last_update_key(symbol), [raw |-> BeBytes(Timestamp(timestamp), 8)])

\* store_live_data: put the quote, then put the last-updated marker.  `fail`
\* names the engine put that returns an error ("none", "put1" or "put2"); the
\* `?` after each put returns at once, keeping what was already written.
store_live_data(d, symbol, data, timestamp, fail) ==
    IF fail = "put1" THEN Err(d)
    ELSE LET d1 == put_live_entry(d, symbol, data, timestamp)
         IN IF fail = "put2" THEN Err(d1)
            ELSE Ok(put_last_update(d1, symbol, timestamp))

\* store_equity_data: one put; no last-updated marker is written.
store_equity_data(d, symbol, data, timestamp, fail) ==
    IF fail = "put1" THEN Err(d)
    ELSE Ok(Put(d, equity_data_key(symbol, timestamp), ToJson(data)))

\* store_market_summary: one put under market:summary:{seconds}.
store_market_summary(d, summary, timestamp, fail) ==
    IF fail = "put1" THEN Err(d)
    ELSE Ok(Put(d, market_summary_key(timestamp), ToJson(summary)))

DecodeAs(kind, v) ==
    CASE kind = "live" -> DecodeEquityLive(v)
      [] kind = "detail" -> DecodeEquity(v)
      [] kind = "summary" -> DecodeMarketSummary(v)

\* A scan that trusts the engine's key order: the last decodable entry wins.
RECURSIVE LatestScanLastWins(_, _, _, _, _)
LatestScanLastWins(d, keys, kind, latest_timestamp, latest_data) ==
    IF keys = << >> THEN latest_data
    ELSE LET decoded == DecodeAs(kind, d[Head(keys)])
         IN LatestScanLastWins(d, Tail(keys), kind, latest_timestamp,
                               IF decoded # None THEN decoded ELSE latest_data)

\* The loop shared by get_latest_live_data, get_latest_equity_data and
\* get_latest_market_summary: parse the text after the last ':' as i64; when it
\* is greater than latest_timestamp, take it as the new latest_timestamp and,
\* if the value decodes, take the value as latest_data.
RECURSIVE LatestScan(_, _, _, _, _)
LatestScan(d, keys, kind, latest_timestamp, latest_data) ==
    IF keys = << >> THEN latest_data
    ELSE LET key == Head(keys)
             ts == ParseI64(LastSegment(key))
         IN IF ts # None /\ ts[1] > latest_timestamp
            THEN LET decoded == DecodeAs(kind, d[key])
                 IN LatestScan(d, Tail(keys), kind, ts[1],
                               IF decoded # None THEN decoded ELSE latest_data)
            ELSE LatestScan(d, Tail(keys), kind, latest_timestamp, latest_data)

get_latest_live_data(d, symbol, bounded) ==
    LatestScan(d, PrefixIterator(d, LivePrefix(symbol), bounded), "live", 0, None)

get_latest_equity_data(d, symbol, bounded) ==
    LatestScan(d, PrefixIterator(d, DetailPrefix(symbol), bounded), "detail", 0, None)

\* A latest read that trusts the engine's order and takes the last key.
get_latest_market_summary_last_key(d, bounded) ==
    LET keys == PrefixIterator(d, MarketSummaryPrefix, TRUE)
    IN IF keys = << >> THEN None
       ELSE DecodeAs("summary", d[keys[Len(keys)]])

get_latest_market_summary(d, bounded) ==
    LatestScan(d, PrefixIterator(d, MarketSummaryPrefix, bounded), "summary", 0, None)

\* The scan of get_historical_data: one TimeSeriesPoint for every visited key
\* whose last segment parses, whose time lies in [from, to] and whose value
\* decodes as EquityLive, in iteration order.
RECURSIVE HistoricalScan(_, _, _, _)
HistoricalScan(d, keys, from, to) ==
    IF keys = << >> THEN << >>
    ELSE LET key == Head(keys)
             ts == ParseI64(LastSegment(key))
             rest == HistoricalScan(d, Tail(keys), from, to)
         IN IF ts = None THEN rest
            ELSE LET made == FromTimestamp(ts[1])
                     dt == IF made = None THEN from ELSE made[1]
                     live == DecodeEquityLive(d[key])
                 IN IF DateTimeLeq(from, dt) /\ DateTimeLeq(dt, to) /\ live # None
                    THEN << [timestamp |-> dt,
                             value |-> live[1].price,
                             volume |-> Some(live[1].volume)] >> \o rest
                    ELSE rest

\* Vec::sort_by_key(|dp| dp.timestamp): a stable sort, ascending.
RECURSIVE SortByTimestamp(_)
SortByTimestamp(points) ==
    IF points = << >> THEN << >>
    ELSE LET sorted == SortByTimestamp(SubSeq(points, 1, Len(points) - 1))
             p == points[Len(points)]
             n == Cardinality({i \in 1..Len(sorted) :
                                  DateTimeLeq(sorted[i].timestamp, p.timestamp)})
         IN SubSeq(sorted, 1, n) \o << p >> \o SubSeq(sorted, n + 1, Len(sorted))

\* The range query without its final sort: points in the engine's key order.
get_historical_data_unsorted(d, symbol, from, to, bounded) ==
    HistoricalScan(d, PrefixIterator(d, LivePrefix(symbol), bounded), from, to)

get_historical_data(d, symbol, from, to, bounded) ==
    SortByTimestamp(
        HistoricalScan(d, PrefixIterator(d, LivePrefix(symbol), bounded), from, to))

\* get_all_symbols_from_db: the second ':'-segment of every key from "stock:"
\* on, collected in a HashSet.
get_all_symbols(d, bounded) ==
    LET keys == PrefixIterator(d, StockPrefix, bounded)
    IN {NthSegment1(keys[i])[1] :
            i \in {j \in 1..Len(keys) : NthSegment1(keys[j]) # None}}

\* The Result of a read: Ok(value), or the engine's iterator error.
ReadOk(v) == [ok |-> TRUE, value |-> << v >>]
ReadErr == [ok |-> FALSE, value |-> << >>]

\* `item?` in the scan loops: an iterator that yields an error on an item ends
\* the read with that error; an empty scan yields no item.
ItemError(d, prefix, bounded, item_err) ==
    item_err /\ PrefixIterator(d, prefix, bounded) # << >>

\* The reads as the trait returns them.  Only `item?` produces an Err: a key
\* that does not parse and a value that does not decode are passed over.
get_latest_live_data_result(d, symbol, bounded, item_err) ==
    IF ItemError(d, LivePrefix(symbol), bounded, item_err) THEN ReadErr
    ELSE ReadOk(get_latest_live_data(d, symbol, bounded))

get_latest_equity_data_result(d, symbol, bounded, item_err) ==
    IF ItemError(d, DetailPrefix(symbol), bounded, item_err) THEN ReadErr
    ELSE ReadOk(get_latest_equity_data(d, symbol, bounded))

\* A range query that propagates a decode error with `?`.
get_historical_data_strict(d, symbol, from, to, bounded, item_err) ==
    LET keys == PrefixIterator(d, LivePrefix(symbol), bounded)
    IN IF ItemError(d, LivePrefix(symbol), bounded, item_err) THEN ReadErr
       ELSE IF \E i \in 1..Len(keys) : DecodeEquityLive(d[keys[i]]) = None
            THEN ReadErr
            ELSE ReadOk(get_historical_data(d, symbol, from, to, bounded))

get_historical_data_result(d, symbol, from, to, bounded, item_err) ==
    IF ItemError(d, LivePrefix(symbol), bounded, item_err) THEN ReadErr
    ELSE ReadOk(get_historical_data(d, symbol, from, to, bounded))

----------------------------------------------------------------------------
(* DataScrapingWorker: calendar, configuration, retry                      *)

WeekdayNames == << "Mon", "Tue", "Wed", "Thu", "Fri", "Sat", "Sun" >>

\* Datelike::weekday of a UTC time: 1970-01-01 was a Thursday.
Weekday(now) == WeekdayNames[(((now.secs \div 86400) + 3) % 7) + 1]

\* Timelike::hour of a UTC time.
Hour(now) == (now.secs % 86400) \div 3600

\* is_trading_hours with an hour test that lets the closing hour in.
is_trading_hours_closed_interval(now) ==
    Weekday(now) \in {"Mon", "Tue", "Wed", "Thu", "Fri"}
        /\ Hour(now) >= 10 /\ Hour(now) <= 15

\* is_trading_hours, `now` being its reading of Utc::now().
is_trading_hours(now) ==
    LET is_weekday == Weekday(now) \in {"Mon", "Tue", "Wed", "Thu", "Fri"}
        hour == Hour(now)
    IN IF ~is_weekday THEN FALSE
       ELSE hour >= 10 /\ hour < 15

\* The largest max_retries the model configures.
MaxRetriesLimit == 2

\* WorkerConfig as main builds it from the environment (defaults 3600, 3, 5,
\* true, true).
Configs ==
    [scrape_interval : {3600},
     max_retries : 0..MaxRetriesLimit,
     retry_delay : {5},
     fetch_equity_data : {TRUE},
     generate_market_summary : BOOLEAN]

DefaultConfig ==
    [scrape_interval |-> 3600, max_retries |-> 3, retry_delay |-> 5,
     fetch_equity_data |-> TRUE, generate_market_summary |-> TRUE]

\* A retry arm that gives up one attempt early.
fetch_with_retry_arm_short(retry_count, max_retries, ok) ==
    IF ok THEN "Ok"
    ELSE IF retry_count + 1 < max_retries THEN "Retry"
    ELSE "Err"

\* A retry arm that never gives up.
fetch_with_retry_arm_endless(retry_count, max_retries, ok) ==
    IF ok THEN "Ok" ELSE "Retry"

\* The match of fetch_with_retry on one attempt's result: Ok returns Ok,
\* Err with retries < max_retries sleeps and loops, any other Err returns it.
fetch_with_retry_arm(retry_count, max_retries, ok) ==
    IF ok THEN "Ok"
    ELSE IF retry_count < max_retries THEN "Retry"
    ELSE "Err"

----------------------------------------------------------------------------
(* FetchStockDataUseCase                                                   *)

NoFailure == [at |-> 0, put |-> "none"]

\* The loop of fetch_and_store_all_live_data: store_live_data for every quote
\* in turn under one timestamp; the first error returns.  `fail` names the
\* quote and the put at which the engine fails.
RECURSIVE StoreAllLive(_, _, _, _, _)
StoreAllLive(d, live_data, i, timestamp, fail) ==
    IF i > Len(live_data) THEN Ok(d)
    ELSE LET r == store_live_data(d, live_data[i].name, live_data[i], timestamp,
                                  IF fail.at = i THEN fail.put ELSE "none")
         IN IF r.ok THEN StoreAllLive(r.db, live_data, i + 1, timestamp, fail)
            ELSE r

\* fetch_and_store_all_live_data: `api` is what fetch_all_live_data returned,
\* None for an error (nothing is stored then).
fetch_and_store_all_live_data(d, api, now, fail) ==
    IF api = None THEN Err(d)
    ELSE StoreAllLive(d, api[1], 1, now, fail)

\* The loop of fetch_and_store_all_equity_data over the equity summaries:
\* details[i] is what fetch_equity_data returned for the i-th, None for an
\* error, which is logged and passed over; a failing store returns.
RECURSIVE StoreAllEquity(_, _, _, _, _)
StoreAllEquity(d, details, i, timestamp, fail) ==
    IF i > Len(details) THEN Ok(d)
    ELSE IF details[i] = None
         THEN StoreAllEquity(d, details, i + 1, timestamp, fail)
         ELSE LET r == store_equity_data(d, details[i][1].name, details[i][1],
                                         timestamp,
                                         IF fail.at = i THEN fail.put ELSE "none")
              IN IF r.ok THEN StoreAllEquity(r.db, details, i + 1, timestamp, fail)
                 ELSE r

\* fetch_and_store_all_equity_data: `api` is None when fetch_all_equities
\* failed, else the per-symbol results of fetch_equity_data.
fetch_and_store_all_equity_data(d, api, now, fail) ==
    IF api = None THEN Err(d)
    ELSE StoreAllEquity(d, api[1], 1, now, fail)

\* A sort whose comparators are swapped: gainers ascending, losers descending.
RECURSIVE SortByChangeSwapped(_, _)
SortByChangeSwapped(quotes, descending) ==
    IF quotes = << >> THEN << >>
    ELSE LET sorted == SortByChangeSwapped(SubSeq(quotes, 1, Len(quotes) - 1),
                                           descending)
             q == quotes[Len(quotes)]
             n == Cardinality({i \in 1..Len(sorted) :
                      IF descending THEN sorted[i].change <= q.change
                      ELSE sorted[i].change >= q.change})
         IN SubSeq(sorted, 1, n) \o << q >> \o SubSeq(sorted, n + 1, Len(sorted))

\* Vec::sort_by on change, stable: descending for the gainers, ascending for
\* the losers.
RECURSIVE SortByChange(_, _)
SortByChange(quotes, descending) ==
    IF quotes = << >> THEN << >>
    ELSE LET sorted == SortByChange(SubSeq(quotes, 1, Len(quotes) - 1), descending)
             q == quotes[Len(quotes)]
             n == Cardinality({i \in 1..Len(sorted) :
                      IF descending THEN sorted[i].change >= q.change
                      ELSE sorted[i].change <= q.change})
         IN SubSeq(sorted, 1, n) \o << q >> \o SubSeq(sorted, n + 1, Len(sorted))

\* The length the gainer and loser lists are truncated to.
TopCount == 5

Truncate(list, n) == SubSeq(list, 1, IF Len(list) < n THEN Len(list) ELSE n)

\* The accumulators of generate_and_store_market_summary before its loop.
NoSummary ==
    [total_market_cap |-> 0, total_volume |-> 0,
     top_gainers |-> << >>, top_losers |-> << >>]

\* One pass of the loop of generate_and_store_market_summary: the latest live
\* quote of the symbol, its latest detail for the share count, and the
\* classification by the sign of change.
SummaryPass(d, symbol, bounded, acc) ==
    LET live == get_latest_live_data(d, symbol, bounded)
    IN IF live = None THEN acc
       ELSE LET live_data == live[1]
                equity == get_latest_equity_data(d, symbol, bounded)
                market_cap ==
                    IF equity # None /\ equity[1].shares # None
                    THEN live_data.price * equity[1].shares[1]
                    ELSE 0
            IN [total_market_cap |-> acc.total_market_cap + market_cap,
                total_volume |-> acc.total_volume + live_data.volume,
                top_gainers |->
                    IF live_data.change > 0
                    THEN Append(acc.top_gainers, live_data)
                    ELSE acc.top_gainers,
                top_losers |->
                    IF ~(live_data.change > 0) /\ live_data.change < 0
                    THEN Append(acc.top_losers, live_data)
                    ELSE acc.top_losers]

\* The loop over the symbols in the order the HashSet yielded them.
RECURSIVE SummaryLoop(_, _, _, _, _)
SummaryLoop(d, symbols, i, bounded, acc) ==
    IF i > Len(symbols) THEN acc
    ELSE SummaryLoop(d, symbols, i + 1, bounded,
                     SummaryPass(d, symbols[i], bounded, acc))

\* The MarketSummary built after the loop: sort, truncate, count, stamp.
SummaryFrom(acc, count, now) ==
    [total_market_cap |-> acc.total_market_cap,
     total_volume |-> acc.total_volume,
     total_stocks |-> count,
     top_gainers |-> Truncate(SortByChange(acc.top_gainers, TRUE), TopCount),
     top_losers |-> Truncate(SortByChange(acc.top_losers, FALSE), TopCount),
     last_updated |-> now]

MarketSummaryOf(d, symbols, now, bounded) ==
    SummaryFrom(SummaryLoop(d, symbols, 1, bounded, NoSummary), Len(symbols), now)

\* The symbols for which the loop reads a detail over a scan that yields
\* an item, so that the read can meet an engine error.
DetailReads(d, symbols, bounded) ==
    {i \in 1..Len(symbols) :
        /\ get_latest_live_data(d, symbols[i], bounded) # None
        /\ ItemError(d, DetailPrefix(symbols[i]), bounded, TRUE)}

\* generate_and_store_market_summary.  `symbols` is get_all_symbols in the
\* order its Vec came out; `fail` is "read" when an engine iterator fails
\* under get_all_symbols or get_latest_live_data, "put1" when the put fails,
\* and "read_detail" when the iterators of get_latest_equity_data fail: that
\* Err does not match `if let Ok(Some(equity))`, so no capitalisation is
\* added and the loop goes on.
generate_and_store_market_summary(d, symbols, now, bounded, fail) ==
    IF fail = "read" THEN Err(d)
    ELSE LET summary == MarketSummaryOf(d, symbols, now, bounded)
         IN store_market_summary(
                d,
                IF fail = "read_detail"
                THEN [summary EXCEPT !.total_market_cap = 0]
                ELSE summary,
                now, fail)

\* The orders in which a HashSet can yield its elements.
Orders(S) ==
    {f \in [1..Cardinality(S) -> S] : \A x \in S : \E i \in 1..Cardinality(S) : f[i] = x}

----------------------------------------------------------------------------
(* Inputs of the store specification                                       *)

SymAB == << "A", "B" >>
SymABC == << "A", "B", "C" >>
SymABlive == << "A", "B", ":", "l", "i", "v", "e" >>

\* Symbols are whatever the upstream API names: two that share leading bytes
\* and one that contains the separator.
StoreSymbols == {SymAB, SymABC, SymABlive}

\* Seconds on both sides of a change in the number of decimal digits.
Seconds == {0, 9, 10}
Nanos == {0, 500000000}
DateTimes == [secs : Seconds, nanos : Nanos]

StoreQuotes(symbol) ==
    {[change |-> 1, name |-> symbol, price |-> p, volume |-> 100 * p] : p \in 1..2}

StoreEquities(symbol) ==
    {[capital |-> None, company |-> [name |-> symbol, directors |-> << >>],
      dps |-> None, eps |-> None, name |-> symbol, price |-> 1, shares |-> sh] :
        sh \in {None, Some(1000)}}

PutFailures == {"none", "put1", "put2"}

\* The number of append calls the store specification makes.
MaxAppends == 2

Appends(h) == LET Sum[S \in SUBSET DOMAIN h] ==
                      IF S = {} THEN 0
                      ELSE LET k == CHOOSE x \in S : TRUE
                           IN Len(h[k]) + Sum[S \ {k}]
              IN Sum[DOMAIN h]

Record(h, symbol, kind, timestamp, data) ==
    LET id == << symbol, kind, Timestamp(timestamp) >>
    IN [k \in DOMAIN h \cup {id} |->
           IF k = id THEN (IF id \in DOMAIN h THEN h[id] ELSE << >>) \o << data >>
           ELSE h[k]]

----------------------------------------------------------------------------
(* The store specification: the repository driven through its trait        *)

\* No concurrent task is modelled.
NoTasks == << >>

\* What a scrape cycle has done, before any cycle.
NoObs ==
    [cycles |-> 0, gate |-> "none", gateTime |-> 0, apiCalls |-> 0,
     liveCalls |-> 0, liveFails |-> 0, liveResult |-> "none",
     summaryCalls |-> 0, summaryFails |-> 0, summaryResult |-> "none",
     result |-> "none", dbAtStart |-> EmptyDb, livePuts |-> EmptyDb,
     faults |-> 0, prevResult |-> "none", absorbed |-> 0]

NoCal == [weekday |-> "Thu", hour |-> 0, minute |-> 0, second |-> 0]

\* The worker before start(), with the clock at the epoch.
WorkerAtRest ==
    /\ clock = 0
    /\ nextTick = 0
    /\ pc = "idle"
    /\ retries = 0
    /\ config = DefaultConfig
    /\ obs = NoObs
    /\ cal = NoCal

StoreInit ==
    /\ db = EmptyDb
    /\ sameAsStart \in BOOLEAN
    /\ tasks = NoTasks
    /\ hist = EmptyDb
    /\ WorkerAtRest

AppendLive(symbol, data, timestamp, fail) ==
    /\ Appends(hist) < MaxAppends
    /\ LET r == store_live_data(db, symbol, data, timestamp, fail)
       IN /\ db' = r.db
          /\ hist' = IF fail = "put1" THEN hist
                     ELSE Record(hist, symbol, "live", timestamp, data)
    /\ UNCHANGED << sameAsStart, tasks, workerVars >>

AppendDetail(symbol, data, timestamp, fail) ==
    /\ Appends(hist) < MaxAppends
    /\ LET r == store_equity_data(db, symbol, data, timestamp, fail)
       IN /\ db' = r.db
          /\ hist' = IF fail = "put1" THEN hist
                     ELSE Record(hist, symbol, "detail", timestamp, data)
    /\ UNCHANGED << sameAsStart, tasks, workerVars >>

StoreNext ==
    \/ \E symbol \in StoreSymbols, timestamp \in DateTimes, fail \in PutFailures :
           \E data \in StoreQuotes(symbol) : AppendLive(symbol, data, timestamp, fail)
    \/ \E symbol \in StoreSymbols, timestamp \in DateTimes, fail \in {"none", "put1"} :
           \E data \in StoreEquities(symbol) : AppendDetail(symbol, data, timestamp, fail)

SpecStore == StoreInit /\ [][StoreNext]_vars

\* The store driven through store_market_summary, with live quotes stored in
\* between.  The summaries are those of an empty store and of a store with
\* one quote; the timestamps are readings of Utc::now().
MarketKey == << >>

GainerQuote == [change |-> 1, name |-> SymAB, price |-> 1, volume |-> 100]

StoreSummaries ==
    {SummaryFrom(NoSummary, 0, At(9)),
     SummaryFrom([NoSummary EXCEPT !.total_volume = 100,
                                   !.top_gainers = << GainerQuote >>],
                 1, At(10))}

SummarySeconds == {9, 10, 11}

\* The number of store_market_summary calls.
MaxSummaryAppends == 3

AppendSummary(summary, timestamp, fail) ==
    /\ Appends(hist) < MaxSummaryAppends
    /\ LET r == store_market_summary(db, summary, timestamp, fail)
       IN /\ db' = r.db
          /\ hist' = IF fail = "put1" THEN hist
                     ELSE Record(hist, MarketKey, "summary", timestamp, summary)
    /\ UNCHANGED << sameAsStart, tasks, workerVars >>

SummariesNext ==
    \/ \E summary \in StoreSummaries, secs \in SummarySeconds, fail \in {"none", "put1"} :
           AppendSummary(summary, At(secs), fail)
    \/ \E timestamp \in {At(secs) : secs \in SummarySeconds} :
           AppendLive(SymAB, GainerQuote, timestamp, "none")

SpecSummaries == StoreInit /\ [][SummariesNext]_vars

\* A live record of an earlier schema, without `change` and `volume`: it does
\* not decode as EquityLive.
LegacyQuote(symbol) == [name |-> symbol, price |-> 1]

\* A key in a live partition whose last segment is not a number.
UnparsableKey(symbol) == LivePrefix(symbol) \o << "o", "l", "d" >>

\* The database directory outlives the binary: a record written under an
\* earlier schema sits at a live key.
LegacyRecord(symbol, secs) ==
    /\ Appends(hist) < MaxAppends
    /\ db' = Put(db, live_data_key(symbol, At(secs)), ToJson(LegacyQuote(symbol)))
    /\ hist' = Record(hist, symbol, "live", At(secs), LegacyQuote(symbol))
    /\ UNCHANGED << sameAsStart, tasks, workerVars >>

\* A decodable value under a key that does not end in a timestamp.
ForeignKey(symbol, data) ==
    /\ Appends(hist) < MaxAppends
    /\ db' = Put(db, UnparsableKey(symbol), ToJson(data))
    /\ hist' = Record(hist, symbol, "foreign", At(0), data)
    /\ UNCHANGED << sameAsStart, tasks, workerVars >>

LegacyNext ==
    \/ \E symbol \in StoreSymbols, timestamp \in DateTimes, fail \in PutFailures :
           \E data \in StoreQuotes(symbol) : AppendLive(symbol, data, timestamp, fail)
    \/ \E symbol \in StoreSymbols, timestamp \in DateTimes, fail \in {"none", "put1"} :
           \E data \in StoreEquities(symbol) : AppendDetail(symbol, data, timestamp, fail)
    \/ \E symbol \in StoreSymbols, secs \in Seconds : LegacyRecord(symbol, secs)
    \/ \E symbol \in StoreSymbols :
           \E data \in StoreQuotes(symbol) : ForeignKey(symbol, data)

\* The repository over a database that also holds what it did not write.
SpecLegacy == StoreInit /\ [][LegacyNext]_vars

----------------------------------------------------------------------------
(* The worker specification: start() and its scrape cycles                 *)

\* Seconds since the epoch of a calendar reading in the week of 1970-01-01.
DayOfWeek ==
    [w \in {"Thu", "Fri", "Sat", "Sun", "Mon", "Tue", "Wed"} |->
        CASE w = "Thu" -> 0 [] w = "Fri" -> 1 [] w = "Sat" -> 2 [] w = "Sun" -> 3
          [] w = "Mon" -> 4 [] w = "Tue" -> 5 [] w = "Wed" -> 6]

InstantOf(c) ==
    DayOfWeek[c.weekday] * 86400 + c.hour * 3600 + c.minute * 60 + c.second

\* The times at which the modelled worker is started: a Saturday noon, and a
\* Wednesday five seconds before the window closes.
WorkerStarts ==
    {[weekday |-> "Sat", hour |-> 12, minute |-> 0, second |-> 0],
     [weekday |-> "Wed", hour |-> 14, minute |-> 59, second |-> 55]}

\* What fetch_all_live_data can return.
WorkerResponses ==
    {<< [change |-> 2, name |-> SymAB, price |-> 3, volume |-> 100],
        [change |-> -1, name |-> SymABC, price |-> 5, volume |-> 200] >>,
     << [change |-> 0, name |-> SymAB, price |-> 4, volume |-> 300] >>}

LiveFailures(api) ==
    {NoFailure} \cup
        (IF api = None THEN {}
         ELSE [at : 1..Len(api[1]), put : {"put1", "put2"}])

\* The scrape cycles the model runs.
MaxCycles == 2

\* The engine errors the model injects.
MaxEngineFaults == 1

WorkerInit ==
    /\ db = EmptyDb
    /\ sameAsStart \in BOOLEAN
    /\ tasks = NoTasks
    /\ hist = EmptyDb
    /\ cal \in WorkerStarts
    /\ clock = InstantOf(cal)
    /\ nextTick = clock
    /\ pc = "idle"
    /\ retries = 0
    /\ config \in Configs
    /\ obs = NoObs

\* The time at which the next cycle starts: at once for the initial scrape,
\* else when interval_timer.tick() completes (its first tick is immediate).
TickTime ==
    IF obs.cycles = 0 \/ clock >= nextTick THEN clock ELSE nextTick

TickDeadline ==
    IF obs.cycles = 0 THEN nextTick ELSE nextTick + config.scrape_interval

NewCycle(gate, now, result) ==
    [NoObs EXCEPT !.cycles = obs.cycles + 1, !.gate = gate, !.gateTime = now,
                  !.result = result, !.dbAtStart = db, !.faults = obs.faults,
                  !.prevResult = obs.result]

\* A gate that reports the skipped cycle as failed.
CycleSkippedAsError ==
    /\ pc = "idle"
    /\ obs.cycles < MaxCycles
    /\ ~is_trading_hours(At(TickTime))
    /\ clock' = TickTime
    /\ nextTick' = TickDeadline
    /\ obs' = NewCycle("skipped", TickTime, "Err")
    /\ UNCHANGED << db, sameAsStart, tasks, hist, pc, retries, config, cal >>

\* A driver that runs the cycle of a tick beside the cycle in progress.
CycleSkippedBesideCycle ==
    /\ pc \in {"idle", "live"}
    /\ obs.cycles < MaxCycles
    /\ ~is_trading_hours(At(TickTime))
    /\ clock' = TickTime
    /\ nextTick' = TickDeadline
    /\ obs' = NewCycle("skipped", TickTime, "Ok")
    /\ UNCHANGED << db, sameAsStart, tasks, hist, pc, retries, config, cal >>

\* run_scrape_cycle outside trading hours: it returns Ok(()) at once.
CycleSkipped ==
    /\ pc = "idle"
    /\ obs.cycles < MaxCycles
    /\ ~is_trading_hours(At(TickTime))
    /\ clock' = TickTime
    /\ nextTick' = TickDeadline
    /\ obs' = NewCycle("skipped", TickTime, "Ok")
    /\ UNCHANGED << db, sameAsStart, tasks, hist, pc, retries, config, cal >>

\* run_scrape_cycle within trading hours: it enters fetch_with_retry for the
\* live data, with retries = 0.
CycleRunning ==
    /\ pc = "idle"
    /\ obs.cycles < MaxCycles
    /\ is_trading_hours(At(TickTime))
    /\ clock' = TickTime
    /\ nextTick' = TickDeadline
    /\ obs' = NewCycle("running", TickTime, "none")
    /\ pc' = "live"
    /\ retries' = 0
    /\ UNCHANGED << db, sameAsStart, tasks, hist, config, cal >>

\* The snapshot keys an attempt has put: those new or changed in `after`.
SnapshotPuts(before, after) ==
    LET keys == {k \in DOMAIN after :
                    /\ StartsWith(k, StockPrefix)
                    /\ (k \notin DOMAIN before \/ before[k] # after[k])}
    IN [k \in keys |-> after[k]]

Merge(f, g) == [k \in DOMAIN f \cup DOMAIN g |-> IF k \in DOMAIN g THEN g[k] ELSE f[k]]

\* run_scrape_cycle without the `return Err(e)` of its live step.
AfterLiveGoesOn(arm, generate_market_summary) ==
    CASE arm = "Retry" -> [pc |-> "live_sleep", result |-> "none"]
      [] OTHER -> IF generate_market_summary
                  THEN [pc |-> "summary", result |-> "none"]
                  ELSE [pc |-> "idle", result |-> "Ok"]

\* A start() that propagates the cycle's error with `?` and so returns.
AfterLiveEndsWorker(arm, generate_market_summary) ==
    CASE arm = "Ok" -> IF generate_market_summary
                       THEN [pc |-> "summary", result |-> "none"]
                       ELSE [pc |-> "idle", result |-> "Ok"]
      [] arm = "Retry" -> [pc |-> "live_sleep", result |-> "none"]
      [] arm = "Err" -> [pc |-> "returned", result |-> "Err"]

\* Where run_scrape_cycle stands after one live attempt, and what it has
\* returned: on Ok it goes on to the market summary when that is enabled, else
\* it returns Ok(()); on the final Err it returns the error.
AfterLive(arm, generate_market_summary) ==
    CASE arm = "Ok" -> IF generate_market_summary
                       THEN [pc |-> "summary", result |-> "none"]
                       ELSE [pc |-> "idle", result |-> "Ok"]
      [] arm = "Retry" -> [pc |-> "live_sleep", result |-> "none"]
      [] arm = "Err" -> [pc |-> "idle", result |-> "Err"]

\* One pass of the loop of fetch_with_retry("live data", ..): the operation
\* fetch_and_store_all_live_data, then the match on its result.
LiveAttempt(api, fail) ==
    /\ pc = "live"
    /\ retries <= config.max_retries
    /\ fail # NoFailure => obs.faults < MaxEngineFaults
    /\ LET r == fetch_and_store_all_live_data(db, api, At(clock), fail)
           arm == fetch_with_retry_arm(retries, config.max_retries, r.ok)
           after == AfterLive(arm, config.generate_market_summary)
       IN /\ db' = r.db
          /\ pc' = after.pc
          /\ retries' = CASE arm = "Retry" -> retries + 1
                          [] after.pc = "summary" -> 0
                          [] OTHER -> retries
          /\ obs' = [obs EXCEPT
                        !.apiCalls = @ + 1,
                        !.liveCalls = @ + 1,
                        !.liveFails = IF r.ok THEN @ ELSE @ + 1,
                        !.liveResult = IF arm = "Retry" THEN @ ELSE arm,
                        !.livePuts = Merge(@, SnapshotPuts(db, r.db)),
                        !.faults = IF fail # NoFailure THEN @ + 1 ELSE @,
                        !.absorbed = IF fail # NoFailure /\ r.ok THEN @ + 1 ELSE @,
                        !.result = after.result]
    /\ UNCHANGED << sameAsStart, tasks, hist, clock, nextTick, config, cal >>

\* sleep(retry_delay) after a failed live attempt.
LiveSleep ==
    /\ pc = "live_sleep"
    /\ clock' = clock + config.retry_delay
    /\ pc' = "live"
    /\ UNCHANGED << db, sameAsStart, tasks, hist, nextTick, retries,
                    config, obs, cal >>

\* run_scrape_cycle with a summary step that returns its final error.
AfterSummaryEscalates(arm) ==
    CASE arm = "Ok" -> [pc |-> "idle", result |-> "Ok"]
      [] arm = "Retry" -> [pc |-> "summary_sleep", result |-> "none"]
      [] arm = "Err" -> [pc |-> "idle", result |-> "Err"]

\* Where run_scrape_cycle stands after one summary attempt: the final Err is
\* only warned about, the cycle returns Ok(()) either way.
AfterSummary(arm) ==
    CASE arm = "Ok" -> [pc |-> "idle", result |-> "Ok"]
      [] arm = "Retry" -> [pc |-> "summary_sleep", result |-> "none"]
      [] arm = "Err" -> [pc |-> "idle", result |-> "Ok"]

\* One pass of the loop of fetch_with_retry("market summary", ..): the
\* operation generate_and_store_market_summary, then the match.
SummaryAttempt(symbols, fail) ==
    /\ pc = "summary"
    /\ retries <= config.max_retries
    /\ fail \in {"put1", "read_detail"} => obs.faults < MaxEngineFaults
    /\ fail = "read_detail" => DetailReads(db, symbols, sameAsStart) # {}
    /\ LET r == generate_and_store_market_summary(db, symbols, At(clock),
                                                  sameAsStart, fail)
           arm == fetch_with_retry_arm(retries, config.max_retries, r.ok)
           after == AfterSummary(arm)
       IN /\ db' = r.db
          /\ pc' = after.pc
          /\ retries' = IF arm = "Retry" THEN retries + 1 ELSE retries
          /\ obs' = [obs EXCEPT
                        !.summaryCalls = @ + 1,
                        !.summaryFails = IF r.ok THEN @ ELSE @ + 1,
                        !.summaryResult = IF arm = "Retry" THEN @ ELSE arm,
                        !.faults = IF fail \in {"put1", "read_detail"}
                                   THEN @ + 1 ELSE @,
                        !.absorbed = IF fail # "none" /\ r.ok THEN @ + 1 ELSE @,
                        !.result = after.result]
    /\ UNCHANGED << sameAsStart, tasks, hist, clock, nextTick, config, cal >>

\* sleep(retry_delay) after a failed summary attempt.
SummarySleep ==
    /\ pc = "summary_sleep"
    /\ clock' = clock + config.retry_delay
    /\ pc' = "summary"
    /\ UNCHANGED << db, sameAsStart, tasks, hist, nextTick, retries,
                    config, obs, cal >>

Next ==
    \/ CycleSkipped
    \/ CycleRunning
    \/ \E api \in {None} \cup {Some(r) : r \in WorkerResponses} :
           \E fail \in LiveFailures(api) : LiveAttempt(api, fail)
    \/ LiveSleep
    \/ /\ pc = "summary"
       /\ \E symbols \in Orders(get_all_symbols(db, sameAsStart)) :
              \E fail \in {"none", "read", "read_detail", "put1"} :
                  SummaryAttempt(symbols, fail)
    \/ SummarySleep

Spec == WorkerInit /\ [][Next]_vars

\* An awaited fetch_and_store_all_live_data returns (the HTTP client has a
\* timeout, the engine calls are synchronous).
LiveReturns == pc = "live" /\ pc' \in {"live_sleep", "summary", "idle"}

\* An awaited generate_and_store_market_summary returns.
SummaryReturns == pc = "summary" /\ pc' \in {"summary_sleep", "idle"}

\* The worker under a runtime that keeps polling its task: the timer fires,
\* sleeps end and every awaited operation returns.
SpecLive ==
    /\ WorkerInit
    /\ [][Next]_vars
    /\ WF_vars(CycleSkipped)
    /\ WF_vars(CycleRunning)
    /\ WF_pc(LiveReturns)
    /\ WF_vars(LiveSleep)
    /\ WF_pc(SummaryReturns)
    /\ WF_vars(SummarySleep)

----------------------------------------------------------------------------
(* The gate specification: is_trading_hours over a week of clock readings  *)

GateInit ==
    /\ db = EmptyDb
    /\ sameAsStart \in BOOLEAN
    /\ tasks = NoTasks
    /\ hist = EmptyDb
    /\ cal \in [weekday : DOMAIN DayOfWeek, hour : 0..23,
                minute : {0, 59}, second : {0}]
    /\ clock = InstantOf(cal)
    /\ nextTick = clock
    /\ pc = "idle"
    /\ retries = 0
    /\ config = DefaultConfig
    /\ obs = NoObs

\* The initial scrape of start(): its gate alone.
GateNext ==
    \/ obs.cycles = 0 /\ CycleSkipped
    \/ obs.cycles = 0 /\ CycleRunning

SpecGate == GateInit /\ [][GateNext]_vars

----------------------------------------------------------------------------
(* The summary specification: the ingestion tasks outside the worker (the  *)
(* initial task of main, the manual refresh triggers) and one run of the   *)
(* aggregator                                                              *)

SymA == << "A" >>
SymB == << "B" >>
SymC == << "C" >>
SymBC == << "B", "C" >>

Quote(symbol, change, n) ==
    [change |-> change, name |-> symbol, price |-> n, volume |-> 100 * n]

\* What fetch_all_live_data returns in this specification: six gainers of
\* which two tie, six losers, the three-symbol market of a gainer, a loser and
\* an unchanged one, a market reduced to one symbol, and two markets with a
\* symbol that contains the separator.
SummaryResponses ==
    {<< Quote(SymA, 1, 1), Quote(SymB, 1, 2), Quote(SymC, 2, 3),
        Quote(SymAB, 3, 4), Quote(SymABC, 4, 5), Quote(SymBC, 5, 6) >>,
     << Quote(SymA, -1, 1), Quote(SymB, -2, 2), Quote(SymC, -3, 3),
        Quote(SymAB, -4, 4), Quote(SymABC, -5, 5), Quote(SymBC, -6, 6) >>,
     << Quote(SymA, 2, 1), Quote(SymB, -1, 2), Quote(SymC, 0, 3) >>,
     << Quote(SymABC, 3, 7) >>,
     << Quote(SymAB, 1, 7), Quote(SymABlive, 3, 8) >>,
     << Quote(SymABlive, 2, 9) >>}

Detail(symbol, shares) ==
    [capital |-> None, company |-> [name |-> symbol, directors |-> << >>],
     dps |-> None, eps |-> None, name |-> symbol, price |-> 1, shares |-> shares]

\* What one equity refresh obtains: per symbol a detail with a share count,
\* a detail without one, or an error from fetch_equity_data.
SummaryDetails ==
    {<< Some(Detail(SymA, Some(1000))), Some(Detail(SymB, None)), None >>,
     << None, Some(Detail(SymAB, Some(10))) >>}

\* The first reading of the clock, one second before the decimal timestamp
\* grows a digit.
SummaryStart == 9

\* The refresh rounds of each kind before the aggregator runs.
MaxRounds == 2

Rounds(kind) ==
    Cardinality({k[3] : k \in {x \in DOMAIN hist : x[2] = kind}})

RECURSIVE RecordAll(_, _, _, _)
RecordAll(h, kind, items, timestamp) ==
    IF items = << >> THEN h
    ELSE RecordAll(IF Head(items) = None THEN h
                   ELSE Record(h, Head(items)[1].name, kind, timestamp,
                               Head(items)[1]),
                   kind, Tail(items), timestamp)

SummaryInit ==
    /\ db = EmptyDb
    /\ sameAsStart \in BOOLEAN
    /\ tasks = NoTasks
    /\ hist = EmptyDb
    /\ clock = SummaryStart
    /\ nextTick = 0
    /\ pc = "idle"
    /\ retries = 0
    /\ config = DefaultConfig
    /\ obs = NoObs
    /\ cal = NoCal

\* fetch_and_store_all_live_data at the next reading of the clock, as the
\* task of trigger_data_refresh and the initial task of main await it.
RefreshLive(live_data) ==
    /\ pc = "idle"
    /\ Rounds("live") < MaxRounds
    /\ clock' = clock + 1
    /\ db' = fetch_and_store_all_live_data(db, Some(live_data), At(clock'),
                                           NoFailure).db
    /\ hist' = RecordAll(hist, "live",
                         [i \in 1..Len(live_data) |-> Some(live_data[i])],
                         At(clock'))
    /\ UNCHANGED << sameAsStart, tasks, nextTick, pc, retries, config, obs,
                    cal >>

\* fetch_and_store_all_equity_data, the first await of the task of
\* trigger_equity_refresh.
RefreshEquity(details) ==
    /\ pc = "idle"
    /\ Rounds("detail") < MaxRounds
    /\ clock' = clock + 1
    /\ db' = fetch_and_store_all_equity_data(db, Some(details), At(clock'),
                                             NoFailure).db
    /\ hist' = RecordAll(hist, "detail", details, At(clock'))
    /\ UNCHANGED << sameAsStart, tasks, nextTick, pc, retries, config, obs,
                    cal >>

Reverse(seq) == [i \in 1..Len(seq) |-> seq[Len(seq) + 1 - i]]

\* The orders the model lets the HashSet of get_all_symbols_from_db yield:
\* every order of up to three symbols, ascending and descending beyond.
IterationOrders(S) ==
    IF Cardinality(S) <= 3 THEN Orders(S)
    ELSE {SortedKeys(S), Reverse(SortedKeys(S))}

\* generate_and_store_market_summary, the await that ends those tasks, run
\* once over what was ingested.
Aggregate(symbols) ==
    /\ pc = "idle"
    /\ hist # EmptyDb
    /\ db' = generate_and_store_market_summary(db, symbols, At(clock),
                                               sameAsStart, "none").db
    /\ pc' = "aggregated"
    /\ UNCHANGED << sameAsStart, tasks, hist, clock, nextTick, retries,
                    config, obs, cal >>

SummaryNext ==
    \/ \E live_data \in SummaryResponses : RefreshLive(live_data)
    \/ \E details \in SummaryDetails : RefreshEquity(details)
    \/ \E symbols \in IterationOrders(get_all_symbols(db, sameAsStart)) :
           Aggregate(symbols)

SpecSummary == SummaryInit /\ [][SummaryNext]_vars

----------------------------------------------------------------------------
(* The race specification: the worker's cycle and a manual refresh both    *)
(* run fetch_and_store_all_live_data while a third task runs               *)
(* generate_and_store_market_summary, all against the one engine.  A step  *)
(* is one engine call: a put, or one scan over an iterator's snapshot.     *)

IngestTasks == {"periodic", "manual"}

\* What the store holds before the race: one earlier round of quotes.
RaceOld == << Quote(SymAB, 1, 1), Quote(SymABC, -1, 2) >>

\* What fetch_all_live_data returns to each task.
RaceResponses ==
    [periodic |-> << Quote(SymAB, 2, 3), Quote(SymABC, -2, 4) >>,
     manual |-> << Quote(SymABC, 3, 5), Quote(SymAB, -3, 6) >>]

\* The reading of the clock when the race starts, and the last reading the
\* model lets the clock reach.
RaceStart == 10
MaxRaceClock == 11

IngestAtStart ==
    [pc |-> "fetch", live_data |-> << >>, i |-> 1, timestamp |-> At(0)]

AggregatorAtStart ==
    [pc |-> "list", symbols |-> << >>, i |-> 1, acc |-> NoSummary,
     seen |-> {}, summary |-> << >>]

RaceInit ==
    /\ db = fetch_and_store_all_live_data(EmptyDb, Some(RaceOld),
                                          At(RaceStart - 1), NoFailure).db
    /\ sameAsStart \in BOOLEAN
    /\ tasks = [periodic |-> IngestAtStart, manual |-> IngestAtStart,
                aggregator |-> AggregatorAtStart]
    /\ hist = EmptyDb
    /\ clock = RaceStart
    /\ nextTick = 0
    /\ pc = "idle"
    /\ retries = 0
    /\ config = DefaultConfig
    /\ obs = NoObs
    /\ cal = NoCal

\* The stores the running aggregator has been reading from, `after` added.
Seen(after) ==
    IF tasks.aggregator.pc \in {"symbol", "store"}
    THEN tasks.aggregator.seen \cup {after}
    ELSE tasks.aggregator.seen

\* fetch_all_live_data returns and the task reads Utc::now().
IngestFetch(t) ==
    /\ tasks[t].pc = "fetch"
    /\ tasks' = [tasks EXCEPT ![t] = [pc |-> "put_live",
                                      live_data |-> RaceResponses[t],
                                      i |-> 1,
                                      timestamp |-> At(clock)]]
    /\ UNCHANGED << db, sameAsStart, hist, workerVars >>

\* The first put of store_live_data for the task's next quote.
IngestPutLive(t) ==
    /\ tasks[t].pc = "put_live"
    /\ LET data == tasks[t].live_data[tasks[t].i]
       IN db' = put_live_entry(db, data.name, data, tasks[t].timestamp)
    /\ tasks' = [tasks EXCEPT ![t].pc = "put_meta",
                              !.aggregator.seen = Seen(db')]
    /\ UNCHANGED << sameAsStart, hist, workerVars >>

\* The second put of store_live_data, and the step of the loop to the next
\* quote.
IngestPutMeta(t) ==
    /\ tasks[t].pc = "put_meta"
    /\ LET data == tasks[t].live_data[tasks[t].i]
       IN db' = put_last_update(db, data.name, tasks[t].timestamp)
    /\ tasks' = [tasks EXCEPT
                    ![t].i = @ + 1,
                    ![t].pc = IF tasks[t].i < Len(tasks[t].live_data)
                              THEN "put_live" ELSE "done",
                    !.aggregator.seen = Seen(db')]
    /\ UNCHANGED << sameAsStart, hist, workerVars >>

\* get_all_symbols, the first await of generate_and_store_market_summary.
AggregatorList(symbols) ==
    /\ tasks.aggregator.pc = "list"
    /\ tasks' = [tasks EXCEPT !.aggregator =
                    [@ EXCEPT !.pc = IF symbols = << >> THEN "store" ELSE "symbol",
                              !.symbols = symbols,
                              !.seen = {db}]]
    /\ UNCHANGED << db, sameAsStart, hist, workerVars >>

\* One pass of the aggregator's loop over the store as it is now.  The two
\* reads of a pass are taken in one step; reading them apart only adds
\* interleavings.
AggregatorPass ==
    /\ tasks.aggregator.pc = "symbol"
    /\ LET a == tasks.aggregator
       IN tasks' = [tasks EXCEPT !.aggregator =
                       [a EXCEPT !.acc = SummaryPass(db, a.symbols[a.i],
                                                     sameAsStart, a.acc),
                                 !.i = a.i + 1,
                                 !.pc = IF a.i < Len(a.symbols)
                                        THEN "symbol" ELSE "store"]]
    /\ UNCHANGED << db, sameAsStart, hist, workerVars >>

\* The sort, the truncation and store_market_summary.
AggregatorStore ==
    /\ tasks.aggregator.pc = "store"
    /\ LET a == tasks.aggregator
           summary == SummaryFrom(a.acc, Len(a.symbols), At(clock))
       IN /\ db' = store_market_summary(db, summary, At(clock), "none").db
          /\ tasks' = [tasks EXCEPT !.aggregator =
                          [a EXCEPT !.pc = "done", !.summary = Some(summary)]]
    /\ UNCHANGED << sameAsStart, hist, workerVars >>

\* A second passes.
RaceTick ==
    /\ clock < MaxRaceClock
    /\ clock' = clock + 1
    /\ UNCHANGED << db, sameAsStart, tasks, hist, nextTick, pc, retries,
                    config, obs, cal >>

RaceNext ==
    \/ \E t \in IngestTasks : IngestFetch(t)
    \/ \E t \in IngestTasks : IngestPutLive(t)
    \/ \E t \in IngestTasks : IngestPutMeta(t)
    \/ \E symbols \in Orders(get_all_symbols(db, sameAsStart)) :
           AggregatorList(symbols)
    \/ AggregatorPass
    \/ AggregatorStore
    \/ RaceTick

SpecRace == RaceInit /\ [][RaceNext]_vars

----------------------------------------------------------------------------
(* The retry specification: one live step of a cycle, fetch_with_retry     *)
(* around fetch_and_store_all_live_data, with make_request_with_retry of   *)
(* the API client inside it.  Times are in milliseconds.                   *)

\* The max_retries that fetch_all_live_data passes to make_request_with_retry.
HttpMaxRetries == 3

\* The first delay of make_request_with_retry and the pause of make_request.
InitialDelayMillis == 1000
RateLimitMillis == 100

RetryConfigs ==
    {[DefaultConfig EXCEPT !.max_retries = m] : m \in 0..DefaultConfig.max_retries}

\* What the API answers when a request succeeds.
RetryResponse == << GainerQuote >>

NoError == [attempt |-> 0, cause |-> "none", request |-> 0]

ClientAtRest == [pc |-> "idle", retries |-> 0, delay |-> InitialDelayMillis,
                 error |-> NoError]

RetryAtStart ==
    [client |-> ClientAtRest, attempts |-> 0, requests |-> 0, elapsed |-> 0,
     faults |-> 0, result |-> "none", error |-> NoError, log |-> << >>]

Event(ev, layer, millis, ok, err) ==
    [ev |-> ev, layer |-> layer, millis |-> millis, ok |-> ok, err |-> err]

RetryInit ==
    /\ db = EmptyDb
    /\ sameAsStart \in BOOLEAN
    /\ tasks = RetryAtStart
    /\ hist = EmptyDb
    /\ clock = 10
    /\ nextTick = 0
    /\ pc = "live"
    /\ retries = 0
    /\ config \in RetryConfigs
    /\ obs = NoObs
    /\ cal = NoCal

\* fetch_with_retry calls operation(): fetch_and_store_all_live_data enters
\* make_request_with_retry with retries = 0 and delay = 1 s.
OperationCall ==
    /\ pc = "live"
    /\ tasks.client.pc = "idle"
    /\ tasks' = [tasks EXCEPT
                    !.client = [ClientAtRest EXCEPT !.pc = "request"],
                    !.attempts = @ + 1,
                    !.log = Append(@, Event("call", "cycle", 0, TRUE, NoError))]
    /\ UNCHANGED << db, sameAsStart, hist, workerVars >>

\* One pass of the loop of make_request_with_retry: make_request (its pause,
\* then the GET), then the match on its result.
MakeRequest(ok) ==
    /\ tasks.client.pc = "request"
    /\ LET n == tasks.requests + 1
           e == [attempt |-> tasks.attempts, cause |-> "http", request |-> n]
       IN tasks' = [tasks EXCEPT
              !.requests = n,
              !.elapsed = @ + RateLimitMillis,
              !.client.pc = IF ok THEN "ok"
                            ELSE IF tasks.client.retries >= HttpMaxRetries
                                 THEN "err"
                                 ELSE "backoff",
              !.client.error = IF ok THEN NoError ELSE e,
              !.log = @ \o << Event("sleep", "rate", RateLimitMillis, TRUE, NoError),
                              Event("http", "request", 0, ok,
                                    IF ok THEN NoError ELSE e) >>]
    /\ UNCHANGED << db, sameAsStart, hist, workerVars >>

\* A backoff that does not grow.
RequestBackoffFixed ==
    /\ tasks.client.pc = "backoff"
    /\ tasks' = [tasks EXCEPT
              !.elapsed = @ + tasks.client.delay,
              !.client.pc = "request",
              !.client.retries = @ + 1,
              !.log = Append(@, Event("sleep", "request", tasks.client.delay,
                                      TRUE, NoError))]
    /\ UNCHANGED << db, sameAsStart, hist, workerVars >>

\* sleep(delay); delay *= 2; retries += 1.
RequestBackoff ==
    /\ tasks.client.pc = "backoff"
    /\ tasks' = [tasks EXCEPT
              !.elapsed = @ + tasks.client.delay,
              !.client.pc = "request",
              !.client.delay = 2 * @,
              !.client.retries = @ + 1,
              !.log = Append(@, Event("sleep", "request", tasks.client.delay,
                                      TRUE, NoError))]
    /\ UNCHANGED << db, sameAsStart, hist, workerVars >>

\* The error fetch_with_retry returns when an attempt's error is final.
ReturnedError(error) == error

\* make_request_with_retry has returned: the rest of
\* fetch_and_store_all_live_data, then the match of fetch_with_retry on the
\* operation's result.
OperationReturn(fail) ==
    /\ pc = "live"
    /\ tasks.client.pc \in {"ok", "err"}
    /\ fail # NoFailure => tasks.client.pc = "ok" /\ tasks.faults < MaxEngineFaults
    /\ LET api == IF tasks.client.pc = "ok" THEN Some(RetryResponse) ELSE None
           now == At(clock + (tasks.elapsed \div 1000))
           r == fetch_and_store_all_live_data(db, api, now, fail)
           arm == fetch_with_retry_arm(retries, config.max_retries, r.ok)
           after == AfterLive(arm, FALSE)
           e == IF r.ok THEN NoError
                ELSE IF api = None THEN tasks.client.error
                ELSE [attempt |-> tasks.attempts, cause |-> "engine",
                      request |-> tasks.requests]
       IN /\ db' = r.db
          /\ pc' = after.pc
          /\ retries' = IF arm = "Retry" THEN retries + 1 ELSE retries
          /\ tasks' = [tasks EXCEPT
                 !.client = ClientAtRest,
                 !.faults = IF fail # NoFailure THEN @ + 1 ELSE @,
                 !.result = after.result,
                 !.error = IF arm = "Err" THEN ReturnedError(e) ELSE @,
                 !.log = Append(@, Event("attempt", "cycle", 0, r.ok, e))]
    /\ UNCHANGED << sameAsStart, hist, clock, nextTick, config, obs, cal >>

\* A sleep that grows with the number of retries.
RetrySleepScaled ==
    /\ pc = "live_sleep"
    /\ pc' = "live"
    /\ tasks' = [tasks EXCEPT
              !.elapsed = @ + 1000 * config.retry_delay * retries,
              !.log = Append(@, Event("sleep", "cycle",
                                      1000 * config.retry_delay * retries,
                                      TRUE, NoError))]
    /\ UNCHANGED << db, sameAsStart, hist, clock, nextTick, retries, config,
                    obs, cal >>

\* sleep(retry_delay) of fetch_with_retry.
RetrySleep ==
    /\ pc = "live_sleep"
    /\ pc' = "live"
    /\ tasks' = [tasks EXCEPT
              !.elapsed = @ + 1000 * config.retry_delay,
              !.log = Append(@, Event("sleep", "cycle", 1000 * config.retry_delay,
                                      TRUE, NoError))]
    /\ UNCHANGED << db, sameAsStart, hist, clock, nextTick, retries, config,
                    obs, cal >>

RetryNext ==
    \/ OperationCall
    \/ \E ok \in BOOLEAN : MakeRequest(ok)
    \/ RequestBackoff
    \/ \E fail \in LiveFailures(Some(RetryResponse)) : OperationReturn(fail)
    \/ RetrySleep

SpecRetry == RetryInit /\ [][RetryNext]_vars

----------------------------------------------------------------------------
(* The read specification: GET /stocks/{symbol} over a store that holds    *)
(* a few snapshots                                                         *)

\* GetStockDataUseCase::get_symbol_data: the latest detail, then the latest
\* live quote, each with `?`; Some only when there is a detail.  `fail` names
\* the engine read that fails.
get_symbol_data(d, symbol, bounded, fail) ==
    LET equity == get_latest_equity_data_result(d, symbol, bounded,
                                                fail = "read_detail")
        live_data == get_latest_live_data_result(d, symbol, bounded,
                                                 fail = "read_live")
    IN IF ~equity.ok \/ ~live_data.ok THEN ReadErr
       ELSE IF equity.value[1] # None
            THEN ReadOk(Some([equity |-> equity.value[1][1],
                              live_data |-> live_data.value[1]]))
            ELSE ReadOk(None)

\* fetch_fresh_equity_data: `api` is what fetch_equity_data returned, None
\* for an error; the detail is stored under the name the API gave it.
fetch_fresh_equity_data(d, api, now, fail) ==
    IF api = None THEN [ok |-> FALSE, db |-> d, equity |-> None]
    ELSE LET r == store_equity_data(d, api[1].name, api[1], now,
                                    IF fail = "put" THEN "put1" ELSE "none")
         IN [ok |-> r.ok, db |-> r.db, equity |-> IF r.ok THEN api ELSE None]

\* The handler's answer: the status, the body, the store it leaves and
\* whether it went to the API.
Answer(status, body, d, fetched) ==
    [status |-> status, body |-> body, db |-> d, fetched |-> fetched]

\* get_stock_by_symbol.
get_stock_by_symbol(d, symbol, bounded, api, now, fail) ==
    LET symbol_upper == to_uppercase(symbol)
        data == get_symbol_data(d, symbol_upper, bounded, fail)
    IN IF ~data.ok THEN Answer(500, None, d, FALSE)
       ELSE IF data.value[1] # None
       THEN Answer(200, Some(data.value[1][1]), d, FALSE)
       ELSE LET fresh == fetch_fresh_equity_data(d, api, now, fail)
                live == get_latest_live_data_result(fresh.db, symbol_upper,
                                                    bounded, fail = "read_again")
                live_data == IF live.ok THEN live.value[1] ELSE None
            IN IF fresh.ok
               THEN Answer(200, Some([equity |-> fresh.equity[1],
                                      live_data |-> live_data]),
                           fresh.db, TRUE)
               ELSE IF live_data # None
                    THEN Answer(200, Some([name |-> symbol_upper,
                                           price |-> live_data[1].price,
                                           live_data |-> live_data]),
                                fresh.db, TRUE)
                    ELSE Answer(404, None, fresh.db, TRUE)

SymABdetail == << "A", "B", ":", "d", "e", "t", "a", "i", "l" >>

\* The names under which the store holds snapshots, and the path segments
\* that are requested.
ReadSymbols == {SymAB, SymABC, SymABdetail}
RequestSymbols == {SymAB, << "a", "b" >>, SymABC}

ReadFailures == {"none", "read_detail", "read_live", "put", "read_again"}

\* The number of requests the model serves.
MaxRequests == 1

NoRequest ==
    [count |-> 0, symbol |-> << >>, hadDetail |-> FALSE, apiOk |-> FALSE,
     fail |-> "none", status |-> 0, body |-> None, fetched |-> FALSE]

ReadInit ==
    /\ db = EmptyDb
    /\ sameAsStart \in BOOLEAN
    /\ tasks = NoRequest
    /\ hist = EmptyDb
    /\ WorkerAtRest

\* One GET /stocks/{symbol}, served at `now`.
GetStock(symbol, api, now, fail) ==
    /\ tasks.count < MaxRequests
    /\ LET r == get_stock_by_symbol(db, symbol, sameAsStart, api, now, fail)
           stored == api # None /\ r.db # db
       IN /\ db' = r.db
          /\ hist' = IF stored
                     THEN Record(hist, api[1].name, "detail", now, api[1])
                     ELSE hist
          /\ tasks' = [count |-> tasks.count + 1,
                       symbol |-> to_uppercase(symbol),
                       hadDetail |-> \E k \in DOMAIN hist :
                                         /\ k[1] = to_uppercase(symbol)
                                         /\ k[2] = "detail",
                       apiOk |-> api # None,
                       fail |-> fail,
                       status |-> r.status,
                       body |-> r.body,
                       fetched |-> r.fetched]
    /\ UNCHANGED << sameAsStart, workerVars >>

ReadNext ==
    \/ \E symbol \in ReadSymbols :
           \E data \in {q \in StoreQuotes(symbol) : q.price = 1} :
               AppendLive(symbol, data, At(9), "none")
    \/ \E symbol \in ReadSymbols :
           \E data \in StoreEquities(symbol) :
               AppendDetail(symbol, data, At(9), "none")
    \/ \E symbol \in RequestSymbols, fail \in ReadFailures :
           \E api \in {None} \cup {Some(e) : e \in StoreEquities(to_uppercase(symbol))} :
               GetStock(symbol, api, At(10), fail)

SpecRead == ReadInit /\ [][ReadNext]_vars

----------------------------------------------------------------------------
(* The trigger specification: the worker with POST /refresh and            *)
(* POST /refresh/equity served beside it.  A handler spawns its task and   *)
(* answers; the task runs later.                                           *)

TriggerKinds == {"data", "equity"}

\* ApiResponse::success of the handler's map.
trigger_response(kind) ==
    [success |-> TRUE,
     data |-> [message |-> IF kind = "data"
                           THEN "Data refresh triggered"
                           ELSE "Equity data refresh triggered (this will take several minutes)",
               status |-> "started"],
     error |-> None]

\* The requests the model serves.
MaxTriggers == 1

NoTriggers ==
    [data |-> "none", equity |-> "none", responses |-> << >>, log |-> << >>]

TriggerInit ==
    /\ db = EmptyDb
    /\ sameAsStart \in BOOLEAN
    /\ tasks = NoTriggers
    /\ hist = EmptyDb
    /\ cal \in {c \in WorkerStarts : c.weekday = "Wed"}
    /\ clock = InstantOf(cal)
    /\ nextTick = clock
    /\ pc = "idle"
    /\ retries = 0
    /\ config \in {c \in Configs : c.max_retries = 1 /\ c.generate_market_summary}
    /\ obs = NoObs

\* trigger_data_refresh and trigger_equity_refresh: tokio::spawn of the
\* task, then the response.
TriggerRefresh(kind) ==
    /\ tasks[kind] # "spawned"
    /\ Len(tasks.responses) < MaxTriggers
    /\ tasks' = [tasks EXCEPT ![kind] = "spawned",
                              !.responses = Append(@, trigger_response(kind))]
    /\ UNCHANGED << db, sameAsStart, hist, workerVars >>

\* A data task whose error is returned into the worker's cycle.
DataTaskFailsWorker(api, fail) ==
    /\ tasks.data = "spawned"
    /\ LET r == fetch_and_store_all_live_data(db, api, At(clock), fail)
       IN /\ db' = r.db
          /\ tasks' = [tasks EXCEPT
                          !.data = IF r.ok THEN "Ok" ELSE "Err",
                          !.log = Append(@, IF r.ok THEN "info" ELSE "error")]
          /\ pc' = IF r.ok THEN pc ELSE "returned"
    /\ UNCHANGED << sameAsStart, hist, clock, nextTick, retries, config, obs, cal >>

\* A data task that runs its operation again after a failure.
DataTaskRetries(api, fail) ==
    /\ tasks.data = "spawned"
    /\ LET r == fetch_and_store_all_live_data(db, api, At(clock), fail)
       IN /\ db' = r.db
          /\ tasks' = [tasks EXCEPT
                          !.data = IF r.ok THEN "Ok" ELSE "spawned",
                          !.log = Append(@, IF r.ok THEN "info" ELSE "error")]
    /\ UNCHANGED << sameAsStart, hist, workerVars >>

\* The task of trigger_data_refresh: fetch_and_store_all_live_data, its
\* result logged.
DataTask(api, fail) ==
    /\ tasks.data = "spawned"
    /\ LET r == fetch_and_store_all_live_data(db, api, At(clock), fail)
       IN /\ db' = r.db
          /\ tasks' = [tasks EXCEPT
                          !.data = IF r.ok THEN "Ok" ELSE "Err",
                          !.log = Append(@, IF r.ok THEN "info" ELSE "error")]
    /\ UNCHANGED << sameAsStart, hist, workerVars >>

\* The task of trigger_equity_refresh: fetch_and_store_all_equity_data and,
\* when that succeeded, generate_and_store_market_summary; errors are logged.
EquityTask(api, fail, summary_fail) ==
    /\ tasks.equity = "spawned"
    /\ LET r == fetch_and_store_all_equity_data(db, api, At(clock), fail)
       IN IF ~r.ok
          THEN /\ db' = r.db
               /\ tasks' = [tasks EXCEPT !.equity = "Err",
                                         !.log = Append(@, "error")]
          ELSE \E symbols \in Orders(get_all_symbols(r.db, sameAsStart)) :
                  LET g == generate_and_store_market_summary(
                               r.db, symbols, At(clock), sameAsStart, summary_fail)
                  IN /\ db' = g.db
                     /\ tasks' = [tasks EXCEPT
                                     !.equity = IF g.ok THEN "Ok" ELSE "Err",
                                     !.log = @ \o (IF g.ok THEN << "info" >>
                                                   ELSE << "info", "error" >>)]
    /\ UNCHANGED << sameAsStart, hist, workerVars >>

TriggerNext ==
    \/ Next
    \/ \E kind \in TriggerKinds : TriggerRefresh(kind)
    \/ \E api \in {None, Some(RetryResponse)} :
           \E fail \in {NoFailure, [at |-> 1, put |-> "put2"]} :
               (api = None => fail = NoFailure) /\ DataTask(api, fail)
    \/ \E api \in {None, Some(<< Some(Detail(SymAB, Some(10))), None >>)} :
           \E fail \in {NoFailure, [at |-> 1, put |-> "put1"]},
              summary_fail \in {"none", "put1"} :
               (api = None => fail = NoFailure) /\ EquityTask(api, fail, summary_fail)

SpecTrigger == TriggerInit /\ [][TriggerNext]_vars

----------------------------------------------------------------------------
(* The marker specification: two tasks call store_live_data against the    *)
(* one engine; a step is one engine put, which can fail.                   *)

AppendTasks == {"a", "b"}

\* A task between two calls of store_live_data.
BetweenAppends == [pc |-> "idle", symbol |-> << >>, timestamp |-> At(0)]

MarkerInit ==
    /\ db = EmptyDb
    /\ sameAsStart \in BOOLEAN
    /\ tasks = [t \in AppendTasks |-> BetweenAppends]
    /\ hist = EmptyDb
    /\ WorkerAtRest

\* The first put of a call of store_live_data: on an error the `?` returns
\* and the call is over, else the call goes on to the marker.
FirstPut(t, symbol, data, timestamp, fail) ==
    /\ tasks[t].pc = "idle"
    /\ Appends(hist) < MaxAppends
    /\ IF fail = "put1"
       THEN UNCHANGED << db, tasks, hist >>
       ELSE /\ db' = put_live_entry(db, symbol, data, timestamp)
            /\ tasks' = [tasks EXCEPT ![t] = [pc |-> "put_meta",
                                              symbol |-> symbol,
                                              timestamp |-> timestamp]]
            /\ hist' = Record(hist, symbol, "live", timestamp, data)
    /\ UNCHANGED << sameAsStart, workerVars >>

\* The second put of the call, the last-updated marker, and the return.
SecondPut(t, fail) ==
    /\ tasks[t].pc = "put_meta"
    /\ db' = IF fail = "put2" THEN db
             ELSE put_last_update(db, tasks[t].symbol, tasks[t].timestamp)
    /\ tasks' = [tasks EXCEPT ![t] = BetweenAppends]
    /\ UNCHANGED << sameAsStart, hist, workerVars >>

MarkerNext ==
    \/ \E t \in AppendTasks, symbol \in {SymAB, SymABlive},
          timestamp \in DateTimes, fail \in {"none", "put1"} :
           \E data \in StoreQuotes(symbol) :
               FirstPut(t, symbol, data, timestamp, fail)
    \/ \E t \in AppendTasks, fail \in {"none", "put2"} : SecondPut(t, fail)

SpecMarker == MarkerInit /\ [][MarkerNext]_vars

----------------------------------------------------------------------------
(* The portfolio ledger: Portfolio, RocksDbPortfolioRepository and         *)
(* PortfolioUseCase::add_transaction, called by concurrent requests.  A    *)
(* step is one engine call.                                                *)

PortfolioPrefix == << "p", "o", "r", "t", "f", "o", "l", "i", "o", ":" >>

portfolio_key(id) == PortfolioPrefix \o id

\* The index of the first item of `symbol`, 0 when there is none.
FindItem(items, symbol) ==
    IF \E i \in 1..Len(items) : items[i].symbol = symbol
    THEN CHOOSE i \in 1..Len(items) :
             /\ items[i].symbol = symbol
             /\ \A j \in 1..(i - 1) : items[j].symbol # symbol
    ELSE 0

\* Vec::retain(|i| i.quantity > 0).
RECURSIVE Retain(_)
Retain(items) ==
    IF items = << >> THEN << >>
    ELSE (IF Head(items).quantity > 0 THEN << Head(items) >> ELSE << >>)
             \o Retain(Tail(items))

\* Portfolio::update_holdings.  The prices of the model make every average a
\* whole number, so the f64 quotient is the integer quotient.
update_holdings(items, transaction) ==
    LET i == FindItem(items, transaction.symbol)
        updated ==
            IF i # 0
            THEN IF transaction.transaction_type = "Buy"
                 THEN LET total_cost ==
                              items[i].quantity * items[i].average_buy_price
                                  + transaction.quantity * transaction.price_per_share
                          quantity == items[i].quantity + transaction.quantity
                      IN [items EXCEPT ![i] =
                             [symbol |-> items[i].symbol,
                              quantity |-> quantity,
                              average_buy_price |-> total_cost \div quantity]]
                 ELSE [items EXCEPT ![i].quantity = @ - transaction.quantity]
            ELSE IF transaction.transaction_type = "Buy"
                 THEN Append(items, [symbol |-> transaction.symbol,
                                     quantity |-> transaction.quantity,
                                     average_buy_price |-> transaction.price_per_share])
                 ELSE items
    IN Retain(updated)

\* Portfolio::add_transaction.
portfolio_add_transaction(portfolio, transaction, now) ==
    [portfolio EXCEPT !.transactions = Append(@, transaction),
                      !.items = update_holdings(@, transaction),
                      !.updated_at = now]

\* Portfolio::new, with the id that Uuid::new_v4 drew.
NewPortfolio(id, name, now) ==
    [id |-> id, name |-> name, created_at |-> now, updated_at |-> now,
     items |-> << >>, transactions |-> << >>]

\* RocksDbPortfolioRepository::create_portfolio, which update_portfolio calls.
create_portfolio(d, portfolio, fail) ==
    IF fail THEN Err(d) ELSE Ok(Put(d, portfolio_key(portfolio.id), ToJson(portfolio)))

update_portfolio(d, portfolio, fail) == create_portfolio(d, portfolio, fail)

\* RocksDbPortfolioRepository::get_portfolio: Ok(Some), Ok(None), or the
\* engine's error.
get_portfolio(d, id, fail) ==
    IF fail THEN ReadErr
    ELSE IF portfolio_key(id) \in DOMAIN d
         THEN ReadOk(Some(d[portfolio_key(id)].json))
         ELSE ReadOk(None)

Callers == {"c1", "c2"}

\* The portfolio that exists and an id that was never created.
OpenedId == << "1" >>
UnknownId == << "2" >>

\* The transaction each request builds: its own id, a Buy or a Sell of one
\* share of AB.
Transactions(c) ==
    [id : {c}, symbol : {SymAB}, transaction_type : {"Buy", "Sell"},
     quantity : {1}, price_per_share : {10, 20}, timestamp : {At(0)}]

NotCalled == [pc |-> "idle", portfolio_id |-> << >>, transaction |-> None,
              portfolio |-> None, result |-> "none"]

PortfolioInit ==
    /\ db = create_portfolio(EmptyDb, NewPortfolio(OpenedId, << "A" >>, At(0)),
                             FALSE).db
    /\ sameAsStart \in BOOLEAN
    /\ tasks = [c \in Callers |-> NotCalled]
    /\ hist = EmptyDb
    /\ WorkerAtRest

\* The handler builds the transaction and calls the use case.
AddCall(c, id, transaction) ==
    /\ tasks[c].pc = "idle"
    /\ tasks' = [tasks EXCEPT ![c] = [NotCalled EXCEPT
                                         !.pc = "called",
                                         !.portfolio_id = id,
                                         !.transaction = Some(transaction)]]
    /\ UNCHANGED << db, sameAsStart, hist, workerVars >>

\* repository.get_portfolio(portfolio_id).await? and the ok_or_else.
AddGet(c, fail) ==
    /\ tasks[c].pc = "called"
    /\ LET r == get_portfolio(db, tasks[c].portfolio_id, fail)
       IN tasks' = [tasks EXCEPT ![c] =
                       IF ~r.ok THEN [@ EXCEPT !.pc = "done", !.result = "Err"]
                       ELSE IF r.value[1] = None
                       THEN [@ EXCEPT !.pc = "done",
                                      !.result = "Portfolio not found"]
                       ELSE [@ EXCEPT !.pc = "loaded", !.portfolio = r.value[1]]]
    /\ UNCHANGED << db, sameAsStart, hist, workerVars >>

\* portfolio.add_transaction(transaction) on the loaded copy, then
\* repository.update_portfolio(&portfolio).await? and Ok(portfolio).
AddPut(c, fail) ==
    /\ tasks[c].pc = "loaded"
    /\ LET portfolio == portfolio_add_transaction(tasks[c].portfolio[1],
                                                  tasks[c].transaction[1], At(clock))
           r == update_portfolio(db, portfolio, fail)
       IN /\ db' = r.db
          /\ tasks' = [tasks EXCEPT ![c] =
                          [@ EXCEPT !.pc = "done",
                                    !.portfolio = Some(portfolio),
                                    !.result = IF r.ok THEN "Ok" ELSE "Err"]]
    /\ UNCHANGED << sameAsStart, hist, workerVars >>

PortfolioNext ==
    \/ \E c \in Callers, id \in {OpenedId, UnknownId} :
           \E transaction \in Transactions(c) : AddCall(c, id, transaction)
    \/ \E c \in Callers, fail \in BOOLEAN : AddGet(c, fail)
    \/ \E c \in Callers, fail \in BOOLEAN : AddPut(c, fail)

SpecPortfolio == PortfolioInit /\ [][PortfolioNext]_vars

----------------------------------------------------------------------------
(* Vocabulary of the store properties                                      *)

\* Every append so far was made on `symbol`.
Isolated(symbol) == \A k \in DOMAIN hist : k[1] = symbol

\* The seconds under which `symbol` has an appended snapshot of `kind`.
SecsOf(symbol, kind) ==
    {k[3] : k \in {x \in DOMAIN hist : x[1] = symbol /\ x[2] = kind}}

\* The payload of the last append under (symbol, kind, secs).
LastPut(symbol, kind, secs) ==
    LET puts == hist[<< symbol, kind, secs >>] IN puts[Len(puts)]

MaxOf(S) == CHOOSE m \in S : \A x \in S : x <= m

KeyOf(symbol, kind, secs) ==
    IF kind = "live" THEN live_data_key(symbol, At(secs))
    ELSE equity_data_key(symbol, At(secs))

\* The point the range query owes for the snapshot of `symbol` at `secs`.
PointOf(symbol, secs) ==
    [timestamp |-> At(secs),
     value |-> LastPut(symbol, "live", secs).price,
     volume |-> Some(LastPut(symbol, "live", secs).volume)]

----------------------------------------------------------------------------
(* Properties of the store                                                 *)

\* C1: after appendLive calls on one symbol with pairwise distinct positive
\* timestamps, in any call order and across a change in the number of decimal
\* digits, getLatest returns the payload written with the numerically largest
\* timestamp.
C1_LatestIsMaxTimestamp ==
    \A s \in StoreSymbols :
        (/\ Isolated(s)
         /\ SecsOf(s, "live") # {}
         /\ \A t \in SecsOf(s, "live") : t > 0)
        => get_latest_live_data(db, s, sameAsStart)
               = Some(LastPut(s, "live", MaxOf(SecsOf(s, "live"))))

\* C1 witness: one symbol holds snapshots at 9 and at 10 (one and two digits,
\* so the engine visits 10 first) with different payloads, and getLatest
\* returns the one written at 10.
C1_Witness ==
    /\ Isolated(SymAB)
    /\ SecsOf(SymAB, "live") = {9, 10}
    /\ LastPut(SymAB, "live", 9) # LastPut(SymAB, "live", 10)
    /\ get_latest_live_data(db, SymAB, sameAsStart) = Some(LastPut(SymAB, "live", 10))

\* C2: for live snapshots of one symbol inserted in any order, getRange(from,
\* to) returns exactly one point for every stored snapshot whose timestamp t
\* has from <= t <= to, no other point, in strictly ascending timestamp order.
C2_RangeExactAscending ==
    \A s \in StoreSymbols :
        Isolated(s) =>
            \A from \in DateTimes, to \in DateTimes :
                LET r == get_historical_data(db, s, from, to, sameAsStart)
                    due == {t \in SecsOf(s, "live") :
                               DateTimeLeq(from, At(t)) /\ DateTimeLeq(At(t), to)}
                IN /\ Len(r) = Cardinality(due)
                   /\ {r[i] : i \in 1..Len(r)} = {PointOf(s, t) : t \in due}
                   /\ \A i \in 1..Len(r) : \A j \in (i + 1)..Len(r) :
                          r[i].timestamp.secs < r[j].timestamp.secs

\* C2 witness: snapshots at 9 and 10 of one symbol (the engine visits 10
\* first).  The range [0, 10] returns both points, 9 before 10; the range
\* [9.5, 10] returns the point of 10 alone.
C2_Witness ==
    /\ Isolated(SymAB)
    /\ SecsOf(SymAB, "live") = {9, 10}
    /\ get_historical_data(db, SymAB, At(0), At(10), sameAsStart)
           = << PointOf(SymAB, 9), PointOf(SymAB, 10) >>
    /\ get_historical_data(db, SymAB, [secs |-> 9, nanos |-> 500000000],
                           At(10), sameAsStart)
           = << PointOf(SymAB, 10) >>

\* C3: appendLive calls with the same (symbol, timestamp) and different
\* payloads leave exactly one entry under that key, holding the last call's
\* payload; getLatest and getRange observe only that payload.
C3_OverwriteKeepsLastPayload ==
    \A k \in DOMAIN hist :
        k[2] = "live" =>
            /\ KeyOf(k[1], "live", k[3]) \in DOMAIN db
            /\ DecodeEquityLive(db[KeyOf(k[1], "live", k[3])])
                   = Some(LastPut(k[1], "live", k[3]))
            /\ Isolated(k[1]) =>
                   /\ Cardinality({key \in DOMAIN db :
                          /\ StartsWith(key, LivePrefix(k[1]))
                          /\ ParseI64(LastSegment(key)) = Some(k[3])}) = 1
                   /\ get_historical_data(db, k[1], At(k[3]), At(k[3]), sameAsStart)
                          = << PointOf(k[1], k[3]) >>
                   /\ (k[3] > 0 /\ k[3] = MaxOf(SecsOf(k[1], "live")))
                          => get_latest_live_data(db, k[1], sameAsStart)
                                 = Some(LastPut(k[1], "live", k[3]))

\* C3 witness: two appends under one (symbol, timestamp) with different
\* payloads; the store reads back the second.
C3_Witness ==
    \E k \in DOMAIN hist :
        /\ k[2] = "live" /\ k[3] > 0 /\ Isolated(k[1])
        /\ Len(hist[k]) = 2
        /\ hist[k][1] # hist[k][2]
        /\ get_latest_live_data(db, k[1], sameAsStart) = Some(hist[k][2])

\* C4: within one (namespace, symbol, kind), the key of a smaller timestamp
\* is smaller in byte order than the key of a larger timestamp, also when the
\* two timestamps have different numbers of decimal digits.
C4_KeyOrderIsTimestampOrder ==
    \A k1 \in DOMAIN hist, k2 \in DOMAIN hist :
        (k1[1] = k2[1] /\ k1[2] = k2[2] /\ k1[3] < k2[3])
        => BytesLess(KeyOf(k1[1], k1[2], k1[3]), KeyOf(k2[1], k2[2], k2[3]))

\* C5: the prefix of a partition matches the keys of that partition only:
\* getLatest and getRange on (symbol, Live) visit and return nothing that was
\* appended under another (symbol, kind).  Stated for the engine that ends
\* the scan with the prefix, the claim's best case.
C5_PrefixMatchesOwnPartitionOnly ==
    sameAsStart =>
        \A s \in StoreSymbols :
            LET visited == PrefixIterator(db, LivePrefix(s), sameAsStart)
                latest == get_latest_live_data(db, s, sameAsStart)
            IN /\ \A i \in 1..Len(visited) :
                      \E t \in SecsOf(s, "live") : visited[i] = KeyOf(s, "live", t)
               /\ latest # None => latest[1].name = s

----------------------------------------------------------------------------
(* Properties of the worker                                                *)

\* The trading window as the specification words it, on the UTC weekday and
\* hour of a time given in seconds.
InWindow(secs) ==
    /\ Weekday(At(secs)) \in {"Mon", "Tue", "Wed", "Thu", "Fri"}
    /\ 10 <= Hour(At(secs))
    /\ Hour(At(secs)) < 15

MinOf(a, b) == IF a < b THEN a ELSE b

SummaryKeys(d) == {k \in DOMAIN d : StartsWith(k, MarketSummaryPrefix)}

\* C6: with max_retries = m, an operation that fails k times and then
\* succeeds makes fetch_with_retry return Ok iff k <= m, after exactly
\* min(k + 1, m + 1) invocations; no invocation follows a success.  Stated of
\* both wrapped operations, once the wrapper has returned and while it loops.
C6_RetryBound ==
    LET m == config.max_retries
    IN /\ obs.liveCalls <= m + 1 /\ obs.summaryCalls <= m + 1
       /\ obs.liveResult = "none" => obs.liveCalls = obs.liveFails
       /\ obs.liveResult # "none" =>
              /\ (obs.liveResult = "Ok") <=> (obs.liveFails <= m)
              /\ obs.liveCalls = MinOf(obs.liveFails + 1, m + 1)
       /\ obs.summaryResult = "none" => obs.summaryCalls = obs.summaryFails
       /\ obs.summaryResult # "none" =>
              /\ (obs.summaryResult = "Ok") <=> (obs.summaryFails <= m)
              /\ obs.summaryCalls = MinOf(obs.summaryFails + 1, m + 1)

\* C6 witness: max_retries = 2 and the live operation fails twice, then
\* succeeds on the third and last allowed invocation.
C6_Witness ==
    /\ config.max_retries = 2
    /\ obs.liveFails = 2
    /\ obs.liveCalls = 3
    /\ obs.liveResult = "Ok"

\* C7: the gate lets a cycle run iff the UTC weekday is Monday..Friday and
\* the UTC hour h has 10 <= h < 15: not on Saturday 12:00, Tuesday 09:59 or
\* Tuesday 15:00, but on Wednesday 10:00 and Wednesday 14:59.
C7_TradingWindow ==
    obs.cycles = 1 =>
        /\ (obs.gate = "running") <=>
               (/\ cal.weekday \in {"Mon", "Tue", "Wed", "Thu", "Fri"}
                /\ 10 <= cal.hour
                /\ cal.hour < 15)
        /\ (cal.weekday = "Sat" /\ cal.hour = 12) => obs.gate = "skipped"
        /\ (cal.weekday = "Tue" /\ cal.hour = 9 /\ cal.minute = 59)
               => obs.gate = "skipped"
        /\ (cal.weekday = "Tue" /\ cal.hour = 15 /\ cal.minute = 0)
               => obs.gate = "skipped"
        /\ (cal.weekday = "Wed" /\ cal.hour = 10 /\ cal.minute = 0)
               => obs.gate = "running"
        /\ (cal.weekday = "Wed" /\ cal.hour = 14 /\ cal.minute = 59)
               => obs.gate = "running"

\* C7 witness: the gate was evaluated on a Wednesday at 14:59 and let the
\* cycle run.
C7_Witness ==
    /\ obs.cycles = 1
    /\ cal.weekday = "Wed" /\ cal.hour = 14 /\ cal.minute = 59
    /\ obs.gate = "running"

\* C8: a tick outside the trading window is skipped: no DataSourceClient
\* call, neither operation invoked, the store as it was, and the cycle
\* reports success.
C8_SkippedCycleDoesNothing ==
    (obs.cycles >= 1 /\ ~InWindow(obs.gateTime)) =>
        /\ obs.gate = "skipped"
        /\ pc = "idle"
        /\ obs.apiCalls = 0
        /\ obs.liveCalls = 0
        /\ obs.summaryCalls = 0
        /\ db = obs.dbAtStart
        /\ obs.result = "Ok"

\* C8 witness: the second tick falls outside the window (Wednesday 15:00 or
\* later) and is skipped over a store that the first cycle has filled.
C8_Witness ==
    /\ obs.cycles = 2
    /\ ~InWindow(obs.gateTime)
    /\ obs.gate = "skipped"
    /\ obs.result = "Ok"
    /\ db # EmptyDb
    /\ db = obs.dbAtStart

\* C9: in a running cycle whose live operation fails on all max_retries + 1
\* attempts, the cycle reports failure and the summary operation is not
\* invoked: the cycle appends no summary.
C9_LiveFailureEndsCycle ==
    (obs.gate = "running" /\ obs.liveFails = config.max_retries + 1) =>
        /\ obs.result = "Err"
        /\ pc = "idle"
        /\ obs.summaryCalls = 0
        /\ SummaryKeys(db) = SummaryKeys(obs.dbAtStart)
        /\ \A k \in SummaryKeys(db) : db[k] = obs.dbAtStart[k]

\* C9 witness: summary generation is enabled, max_retries = 2, and the live
\* operation has failed three times.
C9_Witness ==
    /\ obs.gate = "running"
    /\ config.generate_market_summary
    /\ config.max_retries = 2
    /\ obs.liveFails = 3
    /\ obs.result = "Err"

\* C10: in a running cycle whose live operation succeeded, with summary
\* generation enabled, a summary operation that fails on all max_retries + 1
\* attempts leaves the cycle successful and the live snapshots the cycle
\* wrote in the store.
C10_SummaryFailureIsTolerated ==
    (/\ obs.gate = "running"
     /\ obs.liveResult = "Ok"
     /\ config.generate_market_summary
     /\ obs.summaryFails = config.max_retries + 1) =>
        /\ obs.result = "Ok"
        /\ pc = "idle"
        /\ \A k \in DOMAIN obs.livePuts :
               k \in DOMAIN db /\ db[k] = obs.livePuts[k]

\* C10 witness: the live operation stored snapshots, then the summary
\* operation failed on each of its three attempts, and the cycle ended Ok.
C10_Witness ==
    /\ obs.gate = "running"
    /\ obs.liveResult = "Ok"
    /\ config.max_retries = 2
    /\ obs.summaryFails = 3
    /\ obs.summaryResult = "Err"
    /\ DOMAIN obs.livePuts # {}
    /\ obs.result = "Ok"

\* C11: the scheduler does not end because of a cycle's outcome: every
\* cycle, skipped, failed or successful, comes back to idle, and while the
\* model still has cycles to run the next tick starts a new one.
C11_SchedulerKeepsRunning ==
    /\ (pc # "idle") ~> (pc = "idle")
    /\ \A n \in 0..(MaxCycles - 1) : (obs.cycles = n) ~> (obs.cycles = n + 1)

\* C11 witness: a second cycle has started after a first one that failed
\* with its retries exhausted.
C11_Witness ==
    /\ obs.cycles = 2
    /\ obs.prevResult = "Err"
    /\ obs.gate = "running"

----------------------------------------------------------------------------
(* Properties of reads over undecodable records                            *)

\* The seconds of `symbol` whose current live record decodes, and those whose
\* record does not.
ValidSecs(symbol) ==
    {t \in SecsOf(symbol, "live") :
        DecodeEquityLive(ToJson(LastPut(symbol, "live", t))) # None}

InvalidSecs(symbol) == SecsOf(symbol, "live") \ ValidSecs(symbol)

\* C12: in a partition with N >= 1 decodable snapshots and one undecodable
\* record, wherever that record sits, get_latest_live_data returns the
\* decodable snapshot of the greatest timestamp.
C12_LatestSkipsUndecodable ==
    \A s \in StoreSymbols :
        (/\ Isolated(s)
         /\ Cardinality(InvalidSecs(s)) = 1
         /\ ValidSecs(s) # {}
         /\ MaxOf(ValidSecs(s)) > 0) =>
            get_latest_live_data(db, s, sameAsStart)
                = Some(LastPut(s, "live", MaxOf(ValidSecs(s))))

\* The bounds of the range queries asked of the store with legacy records.
RangeBounds == {At(0), At(9), At(10)}

\* The points a range query owes: one for every decodable record in range.
OwedPoints(symbol, from, to) ==
    {PointOf(symbol, t) :
        t \in {x \in ValidSecs(symbol) :
                  DateTimeLeq(from, At(x)) /\ DateTimeLeq(At(x), to)}}

\* C13: a value that does not decode and a key that does not parse never
\* make a latest-value read or a range read fail; the range read answers Ok
\* with every decodable point in range and leaves the undecodable ones out.
C13_DecodeErrorsAreAbsorbed ==
    \A s \in StoreSymbols :
        /\ get_latest_live_data_result(db, s, sameAsStart, FALSE).ok
        /\ get_latest_equity_data_result(db, s, sameAsStart, FALSE).ok
        /\ \A from \in RangeBounds, to \in RangeBounds :
               LET r == get_historical_data_result(db, s, from, to,
                                                   sameAsStart, FALSE)
               IN /\ r.ok
                  /\ Isolated(s) =>
                         /\ {r.value[1][i] : i \in 1..Len(r.value[1])}
                                = OwedPoints(s, from, to)
                         /\ Len(r.value[1]) = Cardinality(OwedPoints(s, from, to))

\* C13 witness: the partition of AB holds an undecodable record at second 9
\* and a decodable one at second 10, and the range [0, 10] answers Ok with
\* the one decodable point.
C13_Witness ==
    /\ Isolated(SymAB)
    /\ InvalidSecs(SymAB) = {9}
    /\ ValidSecs(SymAB) = {10}
    /\ get_historical_data_result(db, SymAB, At(0), At(10), sameAsStart, FALSE)
           = ReadOk(<< PointOf(SymAB, 10) >>)

----------------------------------------------------------------------------
(* Properties of the aggregator                                            *)

\* The symbols that have a snapshot of any kind.
KnownSymbols == {k[1] : k \in DOMAIN hist}

\* The snapshot of `symbol` and `kind` appended under the greatest timestamp.
LatestOf(symbol, kind) ==
    IF SecsOf(symbol, kind) = {} THEN None
    ELSE Some(LastPut(symbol, kind, MaxOf(SecsOf(symbol, kind))))

\* The known symbols that have a live quote.
Quoted == {s \in KnownSymbols : LatestOf(s, "live") # None}

RECURSIVE SumOver(_, _)
SumOver(S, f) ==
    IF S = {} THEN 0
    ELSE LET x == CHOOSE y \in S : TRUE IN f[x] + SumOver(S \ {x}, f)

\* The summary the aggregator has stored at this reading of the clock.
StoredSummary == db[market_summary_key(At(clock))].json

InList(q, list) == \E i \in 1..Len(list) : list[i] = q

\* C14: after a run of the aggregator, the latest live quote of a symbol is
\* among the gainers only if its change > 0 and among the losers only if its
\* change < 0, a quote of change 0 is in neither list, and total_volume is the
\* sum of the volumes of the latest live quotes of all known symbols.  Stated
\* for the engine that ends the scan with the prefix, the claim's best case.
C14_ClassificationAndVolume ==
    (pc = "aggregated" /\ sameAsStart) =>
        /\ \A s \in Quoted :
               LET q == LatestOf(s, "live")[1]
               IN /\ InList(q, StoredSummary.top_gainers) => q.change > 0
                  /\ InList(q, StoredSummary.top_losers) => q.change < 0
                  /\ q.change = 0 =>
                         /\ ~InList(q, StoredSummary.top_gainers)
                         /\ ~InList(q, StoredSummary.top_losers)
        /\ StoredSummary.total_volume
               = SumOver(Quoted, [s \in Quoted |-> LatestOf(s, "live")[1].volume])

\* The quotes a run of the aggregator gathers: the latest live quote the
\* store returns for each symbol it lists, in key order of the symbols.
Gathered ==
    LET symbols == SortedKeys(get_all_symbols(db, sameAsStart))
        Quotes[i \in 0..Len(symbols)] ==
            IF i = 0 THEN << >>
            ELSE LET live == get_latest_live_data(db, symbols[i], sameAsStart)
                 IN IF live = None THEN Quotes[i - 1]
                    ELSE Append(Quotes[i - 1], live[1])
    IN Quotes[Len(symbols)]

Count(q, list) == Cardinality({i \in 1..Len(list) : list[i] = q})

Select(list, Test(_)) ==
    LET Kept[i \in 0..Len(list)] ==
            IF i = 0 THEN << >>
            ELSE IF Test(list[i]) THEN Append(Kept[i - 1], list[i])
                 ELSE Kept[i - 1]
    IN Kept[Len(list)]

IsGainer(q) == q.change > 0
IsLoser(q) == q.change < 0

\* `listed` holds the min(TopCount, number of candidates) most extreme of
\* `candidates`, most extreme first; Extreme(a, b) says a is at least as
\* extreme as b.
TopOf(listed, candidates, Extreme(_, _)) ==
    /\ Len(listed) <= TopCount
    /\ Len(listed) = MinOf(Len(candidates), TopCount)
    /\ \A i \in 1..Len(listed), j \in 1..Len(listed) :
           i < j => Extreme(listed[i], listed[j])
    /\ \A i \in 1..Len(listed) :
           Count(listed[i], listed) <= Count(listed[i], candidates)
    /\ \A c \in 1..Len(candidates) :
           Count(candidates[c], listed) < Count(candidates[c], candidates) =>
               \A i \in 1..Len(listed) : Extreme(listed[i], candidates[c])

AtLeast(a, b) == a.change >= b.change
AtMost(a, b) == a.change <= b.change

\* C15: in the stored summary top_gainers is sorted by change descending and
\* top_losers ascending, each has at most 5 entries, and of more than 5
\* candidates each list holds the 5 most extreme: no omitted gainer has a
\* larger change, no omitted loser a smaller change, than a listed one.
C15_TopListsSortedAndTruncated ==
    pc = "aggregated" =>
        /\ TopOf(StoredSummary.top_gainers, Select(Gathered, IsGainer), AtLeast)
        /\ TopOf(StoredSummary.top_losers, Select(Gathered, IsLoser), AtMost)

\* C15 witness: six gainers were gathered, five are listed, and the one left
\* out has the smallest change.
C15_Witness ==
    /\ pc = "aggregated"
    /\ Len(Select(Gathered, IsGainer)) = 6
    /\ Len(StoredSummary.top_gainers) = 5
    /\ StoredSummary.top_gainers[1].change = 5
    /\ StoredSummary.top_gainers[5].change = 1

\* The known symbols that count towards the capitalisation: a latest live
\* quote, and a latest detail snapshot that carries a share count.
Capitalised ==
    {s \in Quoted :
        /\ LatestOf(s, "detail") # None
        /\ LatestOf(s, "detail")[1].shares # None}

\* C16: total_market_cap is the sum of live price x shares over exactly the
\* known symbols with a latest live quote and a latest detail snapshot that
\* carries a share count; the others contribute nothing.  Stated for the
\* engine that ends the scan with the prefix, the claim's best case.
C16_MarketCapOverDetailedSymbols ==
    (pc = "aggregated" /\ sameAsStart) =>
        StoredSummary.total_market_cap
            = SumOver(Capitalised,
                      [s \in Capitalised |->
                          LatestOf(s, "live")[1].price
                              * LatestOf(s, "detail")[1].shares[1]])

----------------------------------------------------------------------------
(* Properties of concurrent tasks                                          *)

IngestDone == \A t \in IngestTasks : tasks[t].pc = "done"

\* The quote `t` appended for `symbol`, in an Option.
AppendedBy(t, symbol) ==
    LET at == {i \in 1..Len(tasks[t].live_data) :
                  tasks[t].live_data[i].name = symbol}
    IN IF at = {} THEN None ELSE Some(tasks[t].live_data[CHOOSE i \in at : TRUE])

\* C17: when both ingestion tasks have completed, a key both appended to
\* (same symbol, same second) holds one of the two payloads, whole; appends
\* under different seconds do not conflict: each task's entry is present.
C17_RaceIsLastWriteWins ==
    IngestDone =>
        \A t \in IngestTasks, o \in IngestTasks, symbol \in {SymAB, SymABC} :
            (t # o /\ AppendedBy(t, symbol) # None) =>
                LET key == live_data_key(symbol, tasks[t].timestamp)
                    mine == ToJson(AppendedBy(t, symbol)[1])
                    same == /\ AppendedBy(o, symbol) # None
                            /\ Timestamp(tasks[o].timestamp)
                                   = Timestamp(tasks[t].timestamp)
                IN /\ key \in DOMAIN db
                   /\ IF same
                      THEN db[key] \in {mine, ToJson(AppendedBy(o, symbol)[1])}
                      ELSE db[key] = mine

\* C17 witness: both tasks appended in the same second and each of the two
\* keys kept the payload of a different task.
C17_Witness ==
    /\ IngestDone
    /\ tasks.periodic.timestamp = tasks.manual.timestamp
    /\ db[live_data_key(SymAB, tasks.periodic.timestamp)]
           = ToJson(AppendedBy("manual", SymAB)[1])
    /\ db[live_data_key(SymABC, tasks.periodic.timestamp)]
           = ToJson(AppendedBy("periodic", SymABC)[1])

\* C18: the summary of a completed aggregator run is the aggregate of one of
\* the stores the run went through, from get_all_symbols to its last read:
\* totals and top lists are those of the latest quotes of that one store.
C18_SummaryIsPointInTime ==
    (tasks.aggregator.pc = "done" /\ sameAsStart) =>
        \E S \in tasks.aggregator.seen :
            \E symbols \in Orders(get_all_symbols(S, sameAsStart)) :
                LET summary == tasks.aggregator.summary[1]
                    owed == MarketSummaryOf(S, symbols, summary.last_updated,
                                            sameAsStart)
                IN /\ summary.total_volume = owed.total_volume
                   /\ summary.total_market_cap = owed.total_market_cap
                   /\ summary.top_gainers = owed.top_gainers
                   /\ summary.top_losers = owed.top_losers

----------------------------------------------------------------------------
(* Properties of the appends and the last-updated marker                   *)

\* The marker of `symbol` holds the seconds of `timestamp` in store `d`.
MarkerHolds(d, symbol, timestamp) ==
    /\ last_update_key(symbol) \in DOMAIN d
    /\ d[last_update_key(symbol)] = [raw |-> BeBytes(Timestamp(timestamp), 8)]

\* C19: an append is one atomic put, so no state shows part of an append:
\* wherever the live entry of an appendLive is in the engine, the other half
\* of that append's effect, the symbol's last-updated marker, is there too.
C19_AppendIsOneAtomicPut ==
    \A symbol \in StoreSymbols, timestamp \in DateTimes :
        live_data_key(symbol, timestamp) \in DOMAIN db
            => last_update_key(symbol) \in DOMAIN db

\* C20: a step that is a successful appendLive or a successful appendDetail
\* of (symbol, t) leaves the symbol's last-updated marker present, holding t.
C20_AppendsRefreshLastUpdated ==
    [][\A symbol \in StoreSymbols, timestamp \in DateTimes :
          (\/ \E data \in StoreQuotes(symbol) :
                  AppendLive(symbol, data, timestamp, "none")
           \/ \E data \in StoreEquities(symbol) :
                  AppendDetail(symbol, data, timestamp, "none"))
              => MarkerHolds(db', symbol, timestamp)]_vars

----------------------------------------------------------------------------
(* Properties of the key space under ingestion                             *)

IsSnapshotKey(k) == ~StartsWith(k, LastUpdatePrefix)

\* C21: no step of an ingestion task or of the aggregator removes a key, and
\* the value under an existing snapshot key changes only in the put of an
\* append of the same symbol, kind and second.
C21_StoreIsAppendOnly ==
    [][/\ DOMAIN db \subseteq DOMAIN db'
       /\ \A k \in DOMAIN db :
              (IsSnapshotKey(k) /\ db'[k] # db[k]) =>
                  \E t \in IngestTasks :
                      /\ tasks[t].pc = "put_live"
                      /\ tasks'[t].pc = "put_meta"
                      /\ k = live_data_key(tasks[t].live_data[tasks[t].i].name,
                                           tasks[t].timestamp)]_vars

\* C21 witness: both ingestion tasks and the aggregator have run, the two
\* tasks wrote the same keys, and the earlier round's entry is still there.
C21_Witness ==
    /\ IngestDone
    /\ tasks.aggregator.pc = "done"
    /\ tasks.periodic.timestamp = tasks.manual.timestamp
    /\ live_data_key(SymAB, At(RaceStart - 1)) \in DOMAIN db
    /\ db[live_data_key(SymAB, At(RaceStart - 1))] = ToJson(RaceOld[1])

\* The live keys of `symbol` that the attempts of the current cycle have put.
CycleLiveKeys(symbol) ==
    {k \in DOMAIN obs.livePuts : StartsWith(k, LivePrefix(symbol))}

\* C22: over all the attempts of one scheduled cycle's live step, a symbol
\* gets at most one live entry.
C22_OneLiveSnapshotPerCycle ==
    \A symbol \in {SymAB, SymABC} : Cardinality(CycleLiveKeys(symbol)) <= 1

\* C23: get_all_symbols returns exactly the symbols that have a stored live
\* or detail snapshot, each in the form under which it was appended.
C23_ListSymbolsIsExact ==
    sameAsStart => get_all_symbols(db, sameAsStart) = KnownSymbols

----------------------------------------------------------------------------
(* Properties of the stored market summaries                               *)

SummarySecs == SecsOf(MarketKey, "summary")

\* C24: get_latest_market_summary returns the summary stored under the
\* greatest timestamp, None only when none was stored, and every summary
\* stored under an earlier timestamp is still in the store.
C24_LatestSummaryIsMaxTimestamp ==
    /\ get_latest_market_summary(db, sameAsStart)
           = IF SummarySecs = {} THEN None
             ELSE Some(LastPut(MarketKey, "summary", MaxOf(SummarySecs)))
    /\ \A t \in SummarySecs :
           /\ market_summary_key(At(t)) \in DOMAIN db
           /\ db[market_summary_key(At(t))]
                  = ToJson(LastPut(MarketKey, "summary", t))

\* C24 witness: summaries were stored at 10 and then at 9 with different
\* payloads, a live quote sits in the store as well, and the read returns the
\* summary of 10.
C24_Witness ==
    /\ SummarySecs = {9, 10}
    /\ LastPut(MarketKey, "summary", 9) # LastPut(MarketKey, "summary", 10)
    /\ SecsOf(SymAB, "live") # {}
    /\ get_latest_market_summary(db, sameAsStart)
           = Some(LastPut(MarketKey, "summary", 10))

----------------------------------------------------------------------------
(* Properties of the two retry layers                                      *)

CycleSleep == Event("sleep", "cycle", 1000 * config.retry_delay, TRUE, NoError)

\* C25: fetch_with_retry sleeps retry_delay, unscaled, after every failed
\* attempt that another attempt follows and at no other time, and what it
\* returns on exhaustion is the error of its last attempt.
C25_FixedDelayAndLastError ==
    LET log == tasks.log
    IN /\ \A i \in 1..Len(log) :
              /\ (log[i].ev = "attempt" /\ i < Len(log))
                     => (~log[i].ok /\ log[i + 1] = CycleSleep)
              /\ (log[i].ev = "sleep" /\ log[i].layer = "cycle")
                     => /\ log[i] = CycleSleep
                        /\ i > 1
                        /\ log[i - 1].ev = "attempt"
                        /\ ~log[i - 1].ok
                        /\ i < Len(log) => log[i + 1].ev = "call"
       /\ pc = "idle" =>
              /\ log[Len(log)].ev = "attempt"
              /\ (tasks.result = "Ok") = log[Len(log)].ok
              /\ tasks.result = "Err" =>
                     /\ tasks.error = log[Len(log)].err
                     /\ tasks.error.attempt = tasks.attempts
                     /\ tasks.attempts = config.max_retries + 1

\* C25 witness: four attempts failed, an early one on the engine and the
\* last one on the API, three sleeps were taken and the error returned is the
\* last one.
C25_Witness ==
    /\ pc = "idle"
    /\ tasks.result = "Err"
    /\ tasks.attempts = 4
    /\ tasks.faults = 1
    /\ tasks.error.cause = "http"
    /\ Cardinality({i \in 1..Len(tasks.log) : tasks.log[i] = CycleSleep}) = 3

\* The position of the call event of the client call that event j belongs to.
CallOf(j) ==
    CHOOSE i \in 1..j :
        /\ tasks.log[i].ev = "call"
        /\ \A m \in (i + 1)..j : tasks.log[m].ev # "call"

\* The events of kind `ev` and layer "request" of j's client call up to j.
Earlier(j, ev) ==
    {m \in CallOf(j)..j : tasks.log[m].ev = ev /\ tasks.log[m].layer = "request"}

RECURSIVE Pow2(_)
Pow2(n) == IF n = 0 THEN 1 ELSE 2 * Pow2(n - 1)

\* C26: every client call makes at most 1 + 3 requests, waiting 1 s, 2 s and
\* 4 s after its failed requests and not after the last; every attempt of
\* fetch_with_retry starts that budget afresh; so the live step issues at most
\* (max_retries + 1) x 4 requests, 16 under the default max_retries = 3.
C26_RetryLayersCompose ==
    LET log == tasks.log
    IN /\ \A j \in 1..Len(log) :
              /\ log[j].ev = "http" =>
                     /\ Cardinality(Earlier(j, "http")) <= 1 + HttpMaxRetries
                     /\ (~log[j].ok /\ j < Len(log)) =>
                            IF Cardinality(Earlier(j, "http")) <= HttpMaxRetries
                            THEN log[j + 1].ev = "sleep" /\ log[j + 1].layer = "request"
                            ELSE log[j + 1].ev = "attempt"
                     /\ (log[j].ok /\ j < Len(log)) => log[j + 1].ev = "attempt"
              /\ (log[j].ev = "sleep" /\ log[j].layer = "request") =>
                     /\ log[j].millis
                            = InitialDelayMillis
                                  * Pow2(Cardinality(Earlier(j, "sleep")) - 1)
                     /\ log[j].millis \in {1000, 2000, 4000}
                     /\ log[j - 1].ev = "http" /\ ~log[j - 1].ok
       /\ tasks.attempts <= config.max_retries + 1
       /\ tasks.requests <= (config.max_retries + 1) * (1 + HttpMaxRetries)
       /\ config.max_retries = 3 => tasks.requests <= 16

\* C26 witness: with max_retries = 3 every request of every attempt failed,
\* sixteen requests in all.
C26_Witness ==
    /\ pc = "idle"
    /\ config.max_retries = 3
    /\ tasks.attempts = 4
    /\ tasks.requests = 16

----------------------------------------------------------------------------
(* Properties of the single-symbol read                                    *)

\* C27: a read of a symbol that has no stored detail goes to the API unless
\* an engine read failed; a detail the API returned is stored unless the put
\* failed; and the symbol is reported not found only when the on-demand fetch
\* and store failed.
C27_FetchBeforeAbsence ==
    (tasks.count > 0 /\ ~tasks.hadDetail /\ sameAsStart) =>
        /\ tasks.fail \notin {"read_detail", "read_live"} => tasks.fetched
        /\ (tasks.fetched /\ tasks.apiOk /\ tasks.fail # "put") =>
               /\ equity_data_key(tasks.symbol, At(10)) \in DOMAIN db
               /\ tasks.status = 200
        /\ tasks.status = 404 =>
               tasks.fetched /\ (~tasks.apiOk \/ tasks.fail = "put")

----------------------------------------------------------------------------
(* Properties of the manual triggers                                       *)

----------------------------------------------------------------------------
(* Properties of error propagation in a cycle                              *)

\* C29: no attempt of a scheduled cycle that met an engine failure, in a put
\* or in a read of the summary generation, the detail read included, has
\* returned Ok to fetch_with_retry.
C29_EngineFailuresReachRetry ==
    sameAsStart => obs.absorbed = 0

\* C30: a cycle makes at most max_retries + 1 live attempts and then, only
\* after a successful one, at most max_retries + 1 summary attempts; a step
\* reported Ok had a successful attempt; and every cycle that has started
\* comes back to idle.
C30_CycleTerminates ==
    /\ [](/\ obs.liveCalls <= config.max_retries + 1
          /\ obs.summaryCalls <= config.max_retries + 1
          /\ obs.summaryCalls > 0 =>
                 (obs.liveResult = "Ok" /\ obs.liveCalls > obs.liveFails)
          /\ obs.liveResult = "Ok" => obs.liveCalls = obs.liveFails + 1
          /\ obs.summaryResult = "Ok" => obs.summaryCalls = obs.summaryFails + 1
          /\ pc \in {"live_sleep", "summary_sleep"} => retries <= config.max_retries)
    /\ \A n \in 1..MaxCycles :
           (obs.cycles = n /\ pc # "idle") ~> (obs.cycles = n /\ pc = "idle")

\* C30 witness: a cycle that used every attempt of both steps, the live step
\* succeeding on its last one, and is back at idle.
C30_Witness ==
    /\ pc = "idle"
    /\ obs.gate = "running"
    /\ config.max_retries = MaxRetriesLimit
    /\ obs.liveCalls = MaxRetriesLimit + 1
    /\ obs.liveResult = "Ok"
    /\ obs.summaryCalls = MaxRetriesLimit + 1
    /\ obs.summaryResult = "Err"

----------------------------------------------------------------------------
(* Properties of the ingestion attempt                                     *)

\* The step appends nothing under `symbol`.
Untouched(symbol) ==
    \A k \in DOMAIN hist' : k[1] = symbol => (k \in DOMAIN hist /\ hist'[k] = hist[k])

\* The response that lists one quote for every symbol, in the order `f`.
ResponseIn(f) ==
    [i \in 1..Len(f) |-> CHOOSE q \in StoreQuotes(f[i]) : q.price = 1]

\* The store after a fully successful attempt on the response in order `f`.
AttemptOn(f) ==
    fetch_and_store_all_live_data(db, Some(ResponseIn(f)), At(10), NoFailure)

\* C31: the per-symbol appends of one attempt commute: a fully successful
\* attempt leaves the same store for every order of the fetched quotes of
\* distinct symbols, and an append for one symbol changes neither getLatest
\* nor getRange of another symbol.  Stated for the engine that ends the scan
\* with the prefix.
C31_PerSymbolAppendsCommute ==
    [][sameAsStart =>
          /\ \A f \in Orders(StoreSymbols), g \in Orders(StoreSymbols) :
                 AttemptOn(f).ok /\ AttemptOn(f).db = AttemptOn(g).db
          /\ \A s \in StoreSymbols :
                 Untouched(s) =>
                     /\ get_latest_live_data(db', s, sameAsStart)
                            = get_latest_live_data(db, s, sameAsStart)
                     /\ \A from \in DateTimes, to \in DateTimes :
                            get_historical_data(db', s, from, to, sameAsStart)
                                = get_historical_data(db, s, from, to, sameAsStart)]_vars

\* The summary a run of the aggregator builds now when the HashSet of
\* get_all_symbols_from_db yields the symbols in the order `symbols`.
RunOver(symbols) == MarketSummaryOf(db, symbols, At(clock), sameAsStart)

\* C32: the aggregator is a function of the store contents: any two runs over
\* the same store build the same top_gainers and the same top_losers, also
\* in which of several quotes of equal change hold the 5 places and in what
\* order.  Stated for the engine that ends the scan with the prefix.
C32_AggregatorIsDeterministic ==
    sameAsStart =>
        \A f \in IterationOrders(get_all_symbols(db, sameAsStart)),
           g \in IterationOrders(get_all_symbols(db, sameAsStart)) :
            /\ RunOver(f).top_gainers = RunOver(g).top_gainers
            /\ RunOver(f).top_losers = RunOver(g).top_losers

----------------------------------------------------------------------------
(* Further properties of the store                                         *)

\* C33: getLatest(symbol, kind) is None when the partition is empty and Some
\* when the partition holds a decodable snapshot, whatever its timestamp,
\* also when its only snapshot has timestamp 0.  Stated for a store in which
\* every append was on the one symbol, every snapshot decodable, and for the
\* engine that ends the scan with the prefix.
C33_LatestIsSomeIffNonEmpty ==
    sameAsStart =>
        \A s \in StoreSymbols :
            Isolated(s) =>
                /\ (SecsOf(s, "live") = {})
                       <=> (get_latest_live_data(db, s, sameAsStart) = None)
                /\ (SecsOf(s, "detail") = {})
                       <=> (get_latest_equity_data(db, s, sameAsStart) = None)

----------------------------------------------------------------------------
(* Properties of the scheduling                                            *)

\* C34: the periodic driver starts a cycle only when it has no cycle in
\* progress: from idle, one cycle at a time, after the previous cycle has
\* returned, retry delays included; every write of the driver is made by the
\* one cycle in progress; a write made beside a cycle in progress is the
\* write of a triggered task.
C34_PeriodicCyclesAreSequential ==
    [][/\ obs'.cycles # obs.cycles =>
              /\ pc = "idle"
              /\ obs'.cycles = obs.cycles + 1
              /\ obs.cycles > 0 => obs.result \in {"Ok", "Err"}
              /\ obs'.gateTime >= clock
       /\ (db' # db /\ tasks' = tasks) =>
              /\ pc \in {"live", "summary"}
              /\ obs'.cycles = obs.cycles
              /\ obs.result = "none"
       /\ (db' # db /\ pc \notin {"live", "summary"}) =>
              \E kind \in TriggerKinds :
                  tasks[kind] = "spawned" /\ tasks'[kind] \in {"Ok", "Err"}]_vars

\* C34 witness: the first cycle held the driver through a retry delay while
\* the timer's tick was due, a triggered data task wrote beside it, and the
\* second cycle started only after the first had returned, one delay late.
C34_Witness ==
    /\ obs.cycles = 2
    /\ obs.prevResult = "Ok"
    /\ obs.gateTime = InstantOf(cal) + config.retry_delay
    /\ tasks.data = "Ok"
    /\ \E k \in DOMAIN db : StartsWith(k, LivePrefix(SymAB))

\* The step is one of the spawned data task.
DataTaskStep ==
    /\ tasks.data = "spawned"
    /\ tasks' # tasks
    /\ tasks'.equity = tasks.equity
    /\ tasks'.responses = tasks.responses

\* C35: the task of a manual data refresh calls fetch_and_store_all_live_data
\* once: its one step is that call at the current time, whatever the trading
\* window, it ends the task with Ok or with Err and one log line, it leaves
\* the retry count, the clock and the gate record of the worker alone, and
\* the ended task takes no further step: only a new request, which answers
\* and spawns a new task, starts another call.
C35_TriggeredTaskRunsOnceUngated ==
    [][/\ DataTaskStep =>
              /\ tasks'.data \in {"Ok", "Err"}
              /\ Len(tasks'.log) = Len(tasks.log) + 1
              /\ UNCHANGED workerVars
              /\ \E api \in {None, Some(RetryResponse)} :
                     \E fail \in LiveFailures(api) :
                         LET r == fetch_and_store_all_live_data(db, api, At(clock), fail)
                         IN /\ db' = r.db
                            /\ tasks'.data = IF r.ok THEN "Ok" ELSE "Err"
       /\ tasks.data \in {"Ok", "Err"} =>
              \/ tasks'.data = tasks.data
              \/ /\ tasks'.data = "spawned"
                 /\ Len(tasks'.responses) = Len(tasks.responses) + 1
                 /\ tasks'.log = tasks.log
                 /\ db' = db]_vars

\* C35 witness: with the trading window closed, the task has put its quote
\* under the live key of the current second and then met a failing put; it
\* has ended with Err after that one call.
C35_Witness ==
    /\ ~is_trading_hours(At(clock))
    /\ tasks.data = "Err"
    /\ tasks.log = << "error" >>
    /\ live_data_key(SymAB, At(clock)) \in DOMAIN db
    /\ db[live_data_key(SymAB, At(clock))] = ToJson(GainerQuote)

----------------------------------------------------------------------------
(* Properties of the last-updated marker under concurrent appends          *)

\* The symbol a last-updated key is the marker of.
MarkedSymbol(k) == SubSeq(k, Len(LastUpdatePrefix) + 1, Len(k))

\* The greatest second a task of the marker specification appends at.
LastSecond == MaxOf(Seconds)

\* C36: in every state, between the two puts of an append, after a failed
\* put and with the puts of two tasks interleaved, every last-updated marker
\* holds the eight bytes of a timestamp t for which the live key of its
\* symbol at t is in the store.
C36_MarkerRefersToWrittenSnapshot ==
    \A k \in DOMAIN db :
        StartsWith(k, LastUpdatePrefix) =>
            \E t \in 0..LastSecond :
                /\ db[k] = [raw |-> BeBytes(t, 8)]
                /\ live_data_key(MarkedSymbol(k), At(t)) \in DOMAIN db

\* C36 witness: the marker of AB holds 9 from a finished append while the
\* other task is between its two puts of an append of AB at 10, so the
\* marker is behind the newest live key and yet refers to a written one.
C36_Witness ==
    /\ MarkerHolds(db, SymAB, At(9))
    /\ live_data_key(SymAB, At(9)) \in DOMAIN db
    /\ live_data_key(SymAB, At(10)) \in DOMAIN db
    /\ \E t \in AppendTasks :
           /\ tasks[t].pc = "put_meta"
           /\ tasks[t].symbol = SymAB
           /\ tasks[t].timestamp = At(10)

----------------------------------------------------------------------------
(* Properties of the portfolio ledger                                      *)

\* The holdings that a list of transactions amounts to.
RECURSIVE HoldingsOf(_)
HoldingsOf(transactions) ==
    IF transactions = << >> THEN << >>
    ELSE update_holdings(HoldingsOf(SubSeq(transactions, 1, Len(transactions) - 1)),
                         transactions[Len(transactions)])

\* C37: when every add_transaction call has returned, the stored portfolio
\* lists the transaction of every call that returned Ok and its holdings are
\* those the listed transactions amount to; a call on a portfolio that does
\* not exist returns an error and leaves no key for it.
C37_AddTransactionLosesNoUpdate ==
    (\A c \in Callers : tasks[c].pc = "done") =>
        /\ \A c \in Callers :
               tasks[c].result = "Ok" =>
                   /\ portfolio_key(tasks[c].portfolio_id) \in DOMAIN db
                   /\ LET stored == db[portfolio_key(tasks[c].portfolio_id)].json
                      IN /\ \E i \in 1..Len(stored.transactions) :
                                stored.transactions[i] = tasks[c].transaction[1]
                         /\ stored.items = HoldingsOf(stored.transactions)
        /\ \A c \in Callers :
               tasks[c].portfolio_id = UnknownId =>
                   /\ tasks[c].result # "Ok"
                   /\ portfolio_key(UnknownId) \notin DOMAIN db

====
